---------------------------- MODULE Spec2Model ----------------------------
(***************************************************************************)
(* Model of the Pure-Gouache painting engine (src/hooks/useGouacheEngine.ts)*)
(* together with the effects of the canvas component that hosts it         *)
(* (src/unnamed/part_000).                                                  *)
(*                                                                         *)
(* A raster is a record [w, h, px]: its pixel dimensions and the content   *)
(* of its first NPix pixels (row 0, columns 0..NPix-1), each pixel a       *)
(* record [v, a] of one 8-bit colour channel and the 8-bit alpha.          *)
(* Layer ids are numbers: 0 is 'layer-1', t > 0 is `layer-${t}` where t is *)
(* the value Date.now() returned.                                          *)
(***************************************************************************)
EXTENDS Integers, Sequences, FiniteSets, TLC

(* ------------------------------ bounds -------------------------------- *)
NPix == 2
MaxTime == 2
MaxEdits == 2

(* -------------------------- program constants -------------------------- *)
MAX_HISTORY_BYTES == 150 * 1024 * 1024
HISTORY_MAX_ENTRIES == 20
DEFAULT_CANVAS_W == 300
DEFAULT_CANVAS_H == 150

VARIABLES
    layers,         \* useState<Layer[]>: sequence of [id, visible]
    activeLayerId,  \* activeLayerId / activeLayerIdRef.current
    canvases,       \* the layer <canvas> elements, by layer id
    registered,     \* keys of refs.layerCanvases and layerContextsRef
    mask,           \* the mask <canvas>
    temp,           \* refs.temp, the scratch buffer (content only)
    doc,            \* [w, h]: logicalWidth x logicalHeight (pixelRatio = 1)
    isDrawing, hasMoved, paintLoad, bristles,   \* state.current
    history, historyIndex,                      \* state.current
    settings,       \* settingsRef.current (the fields the engine branches on)
    lastPoint,      \* state.current.lastPoint.x
    snapshot,       \* refs.snapshot: <<>> (null) or the pixels of a layer
    now,            \* the clock read by Date.now()
    opsLeft,        \* how many more drawing operations the run performs
    lastOp          \* the operation performed last, with the history pointer,
                    \* the history length and the paint load it found

vars == <<layers, activeLayerId, canvases, registered, mask, temp, doc,
          isDrawing, hasMoved, paintLoad, bristles, history, historyIndex,
          settings, lastPoint, snapshot, now, opsLeft, lastOp>>

\* the record an operation leaves in lastOp
Did(name) == [op |-> name, i |-> historyIndex, n |-> Len(history), pl |-> paintLoad]

(* ------------------------------ pixels --------------------------------- *)
Pix == 1..NPix
Transparent == [v |-> 0, a |-> 0]
BlankPx == [p \in Pix |-> Transparent]
Raster(w, h, px) == [w |-> w, h |-> h, px |-> px]

\* ImageData.data.length of getImageData(0, 0, w, h)
ImageBytes(w, h) == w * h * 4

Min(x, y) == IF x < y THEN x ELSE y
Max(x, y) == IF x > y THEN x ELSE y

(* ------------------------------ history -------------------------------- *)
\* The context and the canvas commitHistory, getActiveContext and
\* getActiveCanvas find for the active layer: both maps are filled and
\* emptied together, so one set stands for their keys.
HasActive(act, reg, canv) == act \in reg /\ act \in DOMAIN canv

RECURSIVE EvictBytesPointerKept(_, _, _)
\* the eviction loop without the historyIndex-- of line 612
EvictBytesPointerKept(hist, idx, usage) ==
    IF Len(hist) > 0 /\ usage > MAX_HISTORY_BYTES
    THEN EvictBytesPointerKept(Tail(hist), idx, usage - Head(hist).bytes)
    ELSE [h |-> hist, i |-> idx]

RECURSIVE EvictBytes(_, _, _)
\* the while loop of commitHistory: shift from the front while over budget
EvictBytes(hist, idx, usage) ==
    IF Len(hist) > 0 /\ usage > MAX_HISTORY_BYTES
    THEN EvictBytes(Tail(hist), idx - 1, usage - Head(hist).bytes)
    ELSE [h |-> hist, i |-> idx]

RECURSIVE SumBytes(_)
SumBytes(hist) == IF hist = <<>> THEN 0 ELSE Head(hist).bytes + SumBytes(Tail(hist))

\* commitHistory() without the splice that drops the entries above the pointer
CommitHistoryUnspliced(hist, idx, act, reg, canv, msk) ==
    IF ~HasActive(act, reg, canv) THEN [h |-> hist, i |-> idx]
    ELSE LET c == canv[act]
             entry == [layerId |-> act, painting |-> c.px, mask |-> msk.px,
                       bytes |-> ImageBytes(c.w, c.h) + ImageBytes(c.w, c.h)]
             pushed == Append(hist, entry)
             ev == EvictBytes(pushed, idx + 1, SumBytes(pushed))
         IN IF Len(ev.h) > HISTORY_MAX_ENTRIES
            THEN [h |-> Tail(ev.h), i |-> ev.i - 1]
            ELSE ev

\* commitHistory() without the entry-count cap of its last line
CommitHistoryUncapped(hist, idx, act, reg, canv, msk) ==
    IF ~HasActive(act, reg, canv) THEN [h |-> hist, i |-> idx]
    ELSE LET c == canv[act]
             spliced == IF idx < Len(hist) - 1 THEN SubSeq(hist, 1, idx + 1) ELSE hist
             entry == [layerId |-> act, painting |-> c.px, mask |-> msk.px,
                       bytes |-> ImageBytes(c.w, c.h) + ImageBytes(c.w, c.h)]
             pushed == Append(spliced, entry)
         IN EvictBytes(pushed, idx + 1, SumBytes(pushed))

\* commitHistory(): the history and the pointer after the call, given the
\* state it reads
CommitHistory(hist, idx, act, reg, canv, msk) ==
    IF ~HasActive(act, reg, canv) THEN [h |-> hist, i |-> idx]
    ELSE LET c == canv[act] IN
      IF c.w <= 0 \/ c.h <= 0 THEN [h |-> hist, i |-> idx]
      ELSE
        LET spliced == IF idx < Len(hist) - 1 THEN SubSeq(hist, 1, idx + 1) ELSE hist
            entry == [layerId |-> act, painting |-> c.px, mask |-> msk.px,
                      bytes |-> ImageBytes(c.w, c.h) + ImageBytes(c.w, c.h)]
            pushed == Append(spliced, entry)
            ev == EvictBytes(pushed, idx + 1, SumBytes(pushed))
        IN IF Len(ev.h) > HISTORY_MAX_ENTRIES
           THEN [h |-> Tail(ev.h), i |-> ev.i - 1]
           ELSE ev

\* putImageData(snapshot, 0, 0) on the canvas of the entry's layer, when that
\* layer still has a registered context
RestoreLayer(canv, reg, entry) ==
    IF entry.layerId \in reg /\ entry.layerId \in DOMAIN canv
    THEN [canv EXCEPT ![entry.layerId].px = entry.painting]
    ELSE canv

\* undo() with its guard admitting the oldest entry (historyIndex < 0): the
\* pointer moves below it and history[-1] is undefined, so nothing is put
UndoStepPastOldest(idx, hist, canv, reg, msk) ==
    IF idx < 0 THEN [i |-> idx, canv |-> canv, mask |-> msk]
    ELSE IF idx = 0 THEN [i |-> idx - 1, canv |-> canv, mask |-> msk]
    ELSE [i |-> idx - 1,
          canv |-> RestoreLayer(canv, reg, hist[idx]),
          mask |-> [msk EXCEPT !.px = hist[idx].mask]]

\* undo() and redo() as functions of the state they read and write
UndoStep(idx, hist, canv, reg, msk) ==
    IF idx <= 0 THEN [i |-> idx, canv |-> canv, mask |-> msk]
    ELSE LET prevState == hist[idx] IN       \* history[historyIndex - 1], 0-based
         [i |-> idx - 1,
          canv |-> RestoreLayer(canv, reg, prevState),
          mask |-> [msk EXCEPT !.px = prevState.mask]]

RedoStep(idx, hist, canv, reg, msk) ==
    IF idx >= Len(hist) - 1 THEN [i |-> idx, canv |-> canv, mask |-> msk]
    ELSE LET nextState == hist[idx + 2] IN   \* history[historyIndex + 1], 0-based
         [i |-> idx + 1,
          canv |-> RestoreLayer(canv, reg, nextState),
          mask |-> [msk EXCEPT !.px = nextState.mask]]

Undo ==
    LET r == UndoStep(historyIndex, history, canvases, registered, mask) IN
    /\ lastOp' = Did("undo")
    /\ historyIndex' = r.i
    /\ canvases' = r.canv
    /\ mask' = r.mask
    /\ UNCHANGED <<layers, activeLayerId, registered, temp, doc, isDrawing,
                   hasMoved, paintLoad, bristles, history, settings, lastPoint,
                   snapshot, now, opsLeft>>

Redo ==
    LET r == RedoStep(historyIndex, history, canvases, registered, mask) IN
    /\ lastOp' = Did("redo")
    /\ historyIndex' = r.i
    /\ canvases' = r.canv
    /\ mask' = r.mask
    /\ UNCHANGED <<layers, activeLayerId, registered, temp, doc, isDrawing,
                   hasMoved, paintLoad, bristles, history, settings, lastPoint,
                   snapshot, now, opsLeft>>

(* ------------------------- resize and init ----------------------------- *)
\* safeResize(c) without the drawImage(tempC, 0, 0) that draws the old
\* content back: setting width and height clears the canvas
SafeResizeCleared(c, d) ==
    IF c.w = d.w /\ c.h = d.h THEN c ELSE Raster(d.w, d.h, BlankPx)

\* safeResize(c): the canvas is re-dimensioned and its old content drawn
\* back at (0, 0) untransformed
SafeResize(c, d) ==
    IF c.w = d.w /\ c.h = d.h THEN c
    ELSE Raster(d.w, d.h,
                [p \in Pix |-> IF p <= c.w /\ p <= d.w /\ c.h > 0 /\ d.h > 0
                               THEN c.px[p] ELSE Transparent])

\* updateSize(width, height) on the world W = [canv, reg, mask, h, i]
UpdateSize(W, act, d) ==
    IF d.w <= 0 \/ d.h <= 0 THEN W
    ELSE
      LET newMask == SafeResize(W.mask, d)
          newCanv == [id \in DOMAIN W.canv |->
                        IF id \in W.reg THEN SafeResize(W.canv[id], d) ELSE W.canv[id]]
          anyResized == newMask # W.mask \/ newCanv # W.canv
          c == IF anyResized
               THEN CommitHistory(<<>>, -1, act, W.reg, newCanv, newMask)
               ELSE IF Len(W.h) = 0
                    THEN CommitHistory(W.h, W.i, act, W.reg, newCanv, newMask)
                    ELSE [h |-> W.h, i |-> W.i]
      IN [canv |-> newCanv, reg |-> W.reg, mask |-> newMask, h |-> c.h, i |-> c.i]

\* init(getLayerCanvas, mask): registers the canvas of every layer of the
\* current layer list, then calls updateSize
InitEngine(W, lays, act, d) ==
    LET ids == {lays[k].id : k \in DOMAIN lays} \cap DOMAIN W.canv
    IN UpdateSize([W EXCEPT !.reg = W.reg \cup ids], act, d)

World == [canv |-> canvases, reg |-> registered, mask |-> mask,
          h |-> history, i |-> historyIndex]

(* ---------------------------- compositing ------------------------------ *)
\* 'destination-out' with a source of alpha srcA: the destination keeps
\* (1 - srcA/255) of its alpha
DestOut(dst, srcA) ==
    LET a2 == (dst.a * (255 - srcA)) \div 255
    IN IF a2 = 0 THEN Transparent ELSE [v |-> dst.v, a |-> a2]

\* 'source-over'
SourceOver(dst, src) ==
    IF src.a = 0 THEN dst
    ELSE LET back == (dst.a * (255 - src.a)) \div 255
             ao == src.a + back
         IN [v |-> (src.v * src.a + dst.v * back) \div ao, a |-> ao]

\* 'multiply': the source colour is first blended with the backdrop where the
\* backdrop is opaque, then composited source-over
Multiply(dst, src) ==
    IF src.a = 0 THEN dst
    ELSE LET b == (src.v * dst.v) \div 255
             cs == ((255 - dst.a) * src.v + dst.a * b) \div 255
         IN SourceOver(dst, [v |-> cs, a |-> src.a])

\* drawImage(temp) onto the active layer under globalCompositeOperation op
Composite(dst, src, op) ==
    CASE op = "destination-out" -> DestOut(dst, src.a)
      [] op = "multiply" -> Multiply(dst, src)
      [] OTHER -> SourceOver(dst, src)

\* the scratch buffer after the mask is drawn on it with 'destination-out'
EraseByMask(px, mpx) == [p \in Pix |-> DestOut(px[p], mpx[p].a)]

\* the scratch buffer after the paper height map is filled over it with
\* 'destination-out' at globalAlpha influence/255
EraseByTexture(px, tex, influence) ==
    [p \in Pix |-> DestOut(px[p], (tex[p] * influence) \div 255)]

CompositePx(layerPx, scratchPx, op) ==
    [p \in Pix |-> Composite(layerPx[p], scratchPx[p], op)]

\* isEraser ? 'destination-out' : (blendMode || 'source-over')
LayerOp(st) == IF st.isEraser THEN "destination-out" ELSE st.blendMode

(* ------------------------------ colour --------------------------------- *)
\* A string is the sequence of its characters; an RGB colour is a record of
\* three channels.
Rgb(r, g, b) == [r |-> r, g |-> g, b |-> b]

HexDigits == <<"0", "1", "2", "3", "4", "5", "6", "7",
               "8", "9", "a", "b", "c", "d", "e", "f">>
HexDigitsUpper == <<"0", "1", "2", "3", "4", "5", "6", "7",
                    "8", "9", "A", "B", "C", "D", "E", "F">>

RECURSIVE ToString16(_)
\* n.toString(16) of a non-negative integer
ToString16(n) ==
    IF n < 16 THEN <<HexDigits[n + 1]>>
    ELSE Append(ToString16(n \div 16), HexDigits[(n % 16) + 1])

\* rgbToHex without the (1 << 24) that pads the digits to six
RgbToHexUnpadded(r, g, b) ==
    <<"#">> \o Tail(ToString16(r * 65536 + g * 256 + b))

\* '#' + ((1 << 24) + (r << 16) + (g << 8) + b).toString(16).slice(1)
RgbToHex(r, g, b) ==
    <<"#">> \o Tail(ToString16(16777216 + r * 65536 + g * 256 + b))

\* [a-f\d] under the i flag
IsHexChar(ch) == \E k \in 1..16 : HexDigits[k] = ch \/ HexDigitsUpper[k] = ch
HexValue(ch) == (CHOOSE k \in 1..16 : HexDigits[k] = ch \/ HexDigitsUpper[k] = ch) - 1
\* parseInt(s, 16) of two hexadecimal characters
ParseInt16(s) == 16 * HexValue(s[1]) + HexValue(s[2])

\* /^#?([a-f\d]{2})([a-f\d]{2})([a-f\d]{2})$/i, else black
HexToRgb(hex) ==
    LET body == IF hex # <<>> /\ Head(hex) = "#" THEN Tail(hex) ELSE hex IN
    IF Len(body) = 6 /\ \A k \in 1..6 : IsHexChar(body[k])
    THEN Rgb(ParseInt16(SubSeq(body, 1, 2)), ParseInt16(SubSeq(body, 3, 4)),
             ParseInt16(SubSeq(body, 5, 6)))
    ELSE Rgb(0, 0, 0)

\* Math.round of the non-negative fraction n / d
RoundDiv(n, d) == (2 * n + d) \div (2 * d)

\* rgbToCmyk with cyan taken from green and magenta from red
RgbToCmykSwapped(r, g, b) ==
    LET c == 255 - g
        m == 255 - r
        y == 255 - b
        k == Min(c, Min(m, y))
    IN IF k = 255 THEN [c |-> 0, m |-> 0, y |-> 0, d |-> 1, k |-> 255]
       ELSE [c |-> c - k, m |-> m - k, y |-> y - k, d |-> 255 - k, k |-> k]

\* rgbToCmyk, as exact fractions: cyan, magenta and yellow are c/d, m/d and
\* y/d, and black is k/255
RgbToCmyk(r, g, b) ==
    LET c == 255 - r
        m == 255 - g
        y == 255 - b
        k == Min(c, Min(m, y))
    IN IF k = 255 THEN [c |-> 0, m |-> 0, y |-> 0, d |-> 1, k |-> 255]
       ELSE [c |-> c - k, m |-> m - k, y |-> y - k, d |-> 255 - k, k |-> k]

\* cmykToRgb for an ink x/d and black k/510: 255 * (1 - x/d) * (1 - k/510),
\* the fraction n/d of the result
CmykToRgb(x, d, k) == [n |-> (d - x) * (510 - k), d |-> 2 * d]

\* mixPigments(c1, c2, t) for t = t2/2
MixPigments(c1, c2, t2) ==
    LET color1 == RgbToCmyk(c1.r, c1.g, c1.b)
        color2 == RgbToCmyk(c2.r, c2.g, c2.b)
        den == 2 * color1.d * color2.d
        \* x1/d1 + (x2/d2 - x1/d1) * t, over den
        Ink(x1, x2) == 2 * x1 * color2.d + (x2 * color1.d - x1 * color2.d) * t2
        \* k1 + (k2 - k1) * t, over 510
        k == 2 * color1.k + (color2.k - color1.k) * t2
        Channel(x) == LET q == CmykToRgb(x, den, k) IN RoundDiv(q.n, q.d)
    IN Rgb(Channel(Ink(color1.c, color2.c)), Channel(Ink(color1.m, color2.m)),
           Channel(Ink(color1.y, color2.y)))

(* ------------------------------ layers --------------------------------- *)
Ids == 0..MaxTime
LayerIds(lays) == {lays[k].id : k \in DOMAIN lays}
DefaultCanvas == Raster(DEFAULT_CANVAS_W, DEFAULT_CANVAS_H, BlankPx)

RECURSIVE FilterOut(_, _)
\* prev.filter(l => l.id !== id)
FilterOut(lays, id) ==
    IF lays = <<>> THEN <<>>
    ELSE IF Head(lays).id = id THEN FilterOut(Tail(lays), id)
         ELSE <<Head(lays)>> \o FilterOut(Tail(lays), id)

\* the effect that re-targets activeLayerId when it names no layer
FixActive(act, lays) ==
    IF act \notin LayerIds(lays) /\ Len(lays) > 0 THEN lays[Len(lays)].id ELSE act

(* --------------------------- fixed point ------------------------------- *)
\* paintLoad and the depletion rates are in millionths; opacity, alpha,
\* drySensitivity and the dryness threshold in thousandths; distances and
\* step sizes in tenths of a pixel; a bristle colour in hundredths of a
\* channel unit (the engine keeps it as a float).
PL_ONE == 1000000
PL_HALF == 500000
PL_PICKUP == 50000
RATE_DRY == 300
RATE_WET == 100
RATE_WET_LOW == 50
WET_ALPHA_THRESHOLD == 20
MASK_TINT == 108

(* ------------------------------ bristles ------------------------------- *)
NBristles == 2
IsPastel(type) == type \in {"pastel", "pastel2"}

\* updateBristles(type, size): every new bristle carries the brush colour;
\* pastel particles are created with hasPaint: true, the others with
\* hasPaint: !wetMode. drySensitivity is Math.random().
NewBristles(st, dry) ==
    [b \in 1..NBristles |->
        [color |-> st.color * 100,
         hasPaint |-> IF IsPastel(st.brushType) THEN TRUE ELSE ~st.wetMode,
         drySensitivity |-> dry[b]]]

\* the colour effect without its wet-mode test
RecolorBristlesAlways(br, st) ==
    [b \in DOMAIN br |-> [br[b] EXCEPT !.color = st.color * 100]]

\* the colour effect: bristles take the new colour unless wet mode is on
RecolorBristles(br, st) ==
    [b \in DOMAIN br |-> IF ~st.wetMode THEN [br[b] EXCEPT !.color = st.color * 100]
                         ELSE br[b]]

\* mixPigmentsFloatInPlace with a factor of 1.0: the source colour replaces
\* the target
MixPigmentsGreyWhole(c100, src) == src * 100

\* mixPigmentsFloatInPlace(target, source, 0.1) on a grey (r = g = b): the
\* CMY parts are 0 and K is interpolated, so the channel moves a tenth of
\* the way to the source
MixPigmentsGrey(c100, src) == c100 + ((src * 100 - c100) \div 10)

\* rgb(...) string of a float colour as the canvas parses it
ToChannel(c100) == (c100 + 50) \div 100

(* --------------------------- OKLab mixing ------------------------------ *)
\* rgbToOklab(v, v, v).L of a grey, times 2 * 10^7
OKLAB_L ==
    <<0, 1344092, 1693450, 1938517, 2133614, 2298366, 2442378, 2571156,
      2688185, 2795825, 2895759, 2991542, 3086800, 3181328, 3275159, 3368322,
      3460846, 3552755, 3644074, 3734824, 3825026, 3914699, 4003862, 4092531,
      4180722, 4268450, 4355730, 4442575, 4528997, 4615009, 4700622, 4785848,
      4870695, 4955174, 5039295, 5123066, 5206496, 5289593, 5372366, 5454820,
      5536964, 5618805, 5700348, 5781601, 5862569, 5943259, 6023676, 6103826,
      6183713, 6263343, 6342720, 6421850, 6500737, 6579386, 6657800, 6735983,
      6813941, 6891676, 6969193, 7046495, 7123585, 7200467, 7277145, 7353621,
      7429899, 7505981, 7581872, 7657572, 7733087, 7808417, 7883566, 7958536,
      8033330, 8107951, 8182400, 8256680, 8330794, 8404743, 8478530, 8552156,
      8625625, 8698937, 8772095, 8845101, 8917957, 8990664, 9063224, 9135640,
      9207912, 9280043, 9352034, 9423886, 9495602, 9567183, 9638630, 9709945,
      9781129, 9852184, 9923111, 9993911, 10064587, 10135138, 10205567, 10275875,
      10346062, 10416131, 10486082, 10555917, 10625636, 10695241, 10764733, 10834113,
      10903382, 10972542, 11041592, 11110535, 11179371, 11248101, 11316727, 11385248,
      11453667, 11521983, 11590198, 11658313, 11726329, 11794247, 11862066, 11929789,
      11997416, 12064948, 12132385, 12199729, 12266980, 12334139, 12401206, 12468183,
      12535071, 12601869, 12668579, 12735201, 12801736, 12868184, 12934547, 13000825,
      13067019, 13133129, 13199156, 13265100, 13330962, 13396744, 13462444, 13528065,
      13593606, 13659068, 13724452, 13789758, 13854987, 13920139, 13985215, 14050215,
      14115140, 14179991, 14244767, 14309470, 14374100, 14438658, 14503143, 14567557,
      14631900, 14696172, 14760373, 14824505, 14888568, 14952562, 15016487, 15080345,
      15144135, 15207858, 15271514, 15335104, 15398628, 15462087, 15525481, 15588809,
      15652074, 15715275, 15778412, 15841487, 15904498, 15967447, 16030335, 16093160,
      16155925, 16218628, 16281271, 16343854, 16406377, 16468840, 16531244, 16593589,
      16655876, 16718105, 16780276, 16842389, 16904445, 16966444, 17028387, 17090273,
      17152103, 17213878, 17275597, 17337261, 17398871, 17460426, 17521926, 17583373,
      17644766, 17706106, 17767393, 17828627, 17889808, 17950937, 18012014, 18073040,
      18134014, 18194936, 18255808, 18316629, 18377400, 18438120, 18498791, 18559411,
      18619983, 18680505, 18740978, 18801402, 18861778, 18922106, 18982385, 19042617,
      19102801, 19162938, 19223027, 19283070, 19343066, 19403015, 19462919, 19522776,
      19582587, 19642353, 19702073, 19761748, 19821378, 19880963, 19940504, 20000000>>

\* OKLAB_INV[k + 1]: the least L (times 2 * 10^7) at which the green channel
\* of oklabToRgb(L, 0, 0) rounds to k or more
OKLAB_INV ==
    <<0, 1066807, 1538602, 1824214, 2040728, 2219048, 2372558, 2508420,
      2630972, 2743061, 2846669, 2943630, 3039265, 3134154, 3228329, 3321823,
      3414663, 3506877, 3598488, 3689519, 3779993, 3869928, 3959344, 4048257,
      4136685, 4224643, 4312146, 4399207, 4485839, 4572054, 4657866, 4743283,
      4828318, 4912980, 4997279, 5081224, 5164824, 5248086, 5331020, 5413633,
      5495931, 5577922, 5659614, 5741011, 5822121, 5902949, 5983502, 6063784,
      6143802, 6223560, 6303063, 6382316, 6461324, 6540091, 6618622, 6696921,
      6774991, 6852837, 6930462, 7007871, 7085067, 7162053, 7238832, 7315409,
      7391785, 7467965, 7543951, 7619746, 7695353, 7770775, 7846014, 7921074,
      7995956, 8070663, 8145197, 8219562, 8293758, 8367789, 8441657, 8515363,
      8588911, 8662301, 8735536, 8808618, 8881548, 8954329, 9026963, 9099451,
      9171794, 9243996, 9316056, 9387978, 9459762, 9531410, 9602923, 9674304,
      9745554, 9816673, 9887664, 9958527, 10029265, 10099878, 10170368, 10240737,
      10310984, 10381112, 10451122, 10521014, 10590791, 10660453, 10730002, 10799438,
      10868762, 10937976, 11007081, 11076078, 11144967, 11213750, 11282427, 11351001,
      11419471, 11487838, 11556104, 11624269, 11692334, 11760301, 11828169, 11895940,
      11963615, 12031194, 12098679, 12166069, 12233367, 12300571, 12367685, 12434707,
      12501639, 12568481, 12635235, 12701901, 12768480, 12834971, 12901377, 12967697,
      13033933, 13100085, 13166153, 13232139, 13298042, 13363864, 13429605, 13495265,
      13560846, 13626347, 13691770, 13757115, 13822382, 13887573, 13952687, 14017725,
      14082687, 14147575, 14212389, 14277129, 14341795, 14406389, 14470910, 14535360,
      14599738, 14664045, 14728282, 14792449, 14856546, 14920574, 14984534, 15048425,
      15112249, 15176005, 15239695, 15303318, 15366875, 15430366, 15493792, 15557154,
      15620450, 15683683, 15746852, 15809958, 15873001, 15935981, 15998899, 16061756,
      16124551, 16187285, 16249958, 16312570, 16375123, 16437616, 16500050, 16562425,
      16624741, 16686998, 16749198, 16811340, 16873425, 16935452, 16997423, 17059337,
      17121196, 17182998, 17244745, 17306437, 17368074, 17429656, 17491183, 17552657,
      17614077, 17675444, 17736757, 17798017, 17859225, 17920380, 17981483, 18042534,
      18103534, 18164482, 18225379, 18286226, 18347021, 18407767, 18468462, 18529108,
      18589704, 18650250, 18710748, 18771197, 18831597, 18891948, 18952252, 19012508,
      19072715, 19132876, 19192989, 19253055, 19313074, 19373047, 19432973, 19492853,
      19552688, 19612476, 19672219, 19731917, 19791569, 19851177, 19910740, 19970258>>

\* mixOklabFloatInPlace(target, source, 0.15) on greys, as the Uint8 buffer
\* stores its green channel
MixOklabGrey(t, w) ==
    LET L100 == 85 * OKLAB_L[t + 1] + 15 * OKLAB_L[w + 1]
    IN CHOOSE k \in 0..255 :
         /\ L100 >= 100 * OKLAB_INV[k + 1]
         /\ (k = 255 \/ L100 < 100 * OKLAB_INV[k + 2])

(* ------------------------------- strokes ------------------------------- *)
\* stepSize of drawSegment (pressureSensitivity off), in tenths of a pixel
StepSize10(st) ==
    IF st.brushType = "pastel" THEN Max(15, (st.size * 22) \div 10)
    ELSE IF st.brushType = "pastel2" THEN Max(15, (st.size * 25) \div 10)
    ELSE Max(15, (st.size * 8) \div 10)

Abs(x) == IF x < 0 THEN -x ELSE x
CeilDiv(a, b) == (a + b - 1) \div b

\* depletionRate * (1 + speedFactor * 3) * stepSize, speedFactor = min(dist/15, 1)
Depletion(st, pl, dist) ==
    LET rate == IF IsPastel(st.brushType) /\ ~st.wetMode THEN 0
                ELSE IF st.wetMode /\ pl < PL_HALF THEN RATE_WET_LOW
                ELSE IF st.wetMode THEN RATE_WET ELSE RATE_DRY
    IN (rate * (15 + 3 * Min(dist, 15)) * StepSize10(st)) \div 150

\* (1 - paintLoad) * 0.5 + speedFactor * 0.3, in thousandths (noise taken 0)
DryThreshold(pl, dist) == (PL_ONE - pl) \div 2000 + Min(dist, 15) * 20

\* stamp alpha in thousandths (pressure 1.0, bristle on the brush axis)
StampAlpha(st, pl) ==
    LET base == IF IsPastel(st.brushType) THEN st.opacity
                ELSE (st.opacity * (pl \div 1000)) \div 1000
        wet == IF st.wetMode THEN (base * 95) \div 100 ELSE base
    IN Min(1000, Max(0, wet))

\* paintLoad = Math.max(0, paintLoad - depletion) with the sign of the
\* depletion flipped
DepleteReversed(pl, amount) == Max(0, pl + amount)

\* paintLoad = Math.max(0, paintLoad - depletion)
Deplete(pl, amount) == Max(0, pl - amount)

\* the wet pickup without the Math.min(1, ...) of its second branch
PickupLoadUncapped(pl, hadPaint) ==
    IF ~hadPaint THEN Max(pl, PL_HALF) ELSE pl + PL_PICKUP

\* paintLoad after a bristle picked paint up from the wet buffer
PickupLoad(pl, hadPaint) ==
    IF ~hadPaint THEN Max(pl, PL_HALF) ELSE Min(PL_ONE, pl + PL_PICKUP)

\* the bristle loop body without the test of line 1227
\* (wetMode && !bristle.hasPaint): a bristle without paint stamps too
StampBristleUnloaded(S, b, q, st, wet, dist) ==
    LET bristle == S.br[b]
        skipDry == ~IsPastel(st.brushType)
                   /\ DryThreshold(S.pl, dist) > bristle.drySensitivity
        pick == st.wetMode /\ wet # <<>> /\ q # 0 /\ wet[q].a > WET_ALPHA_THRESHOLD
        br1 == IF ~pick THEN bristle
               ELSE IF ~bristle.hasPaint
                    THEN [bristle EXCEPT !.color = wet[q].v * 100, !.hasPaint = TRUE]
                    ELSE [bristle EXCEPT !.color = MixPigmentsGrey(bristle.color, wet[q].v)]
        pl1 == IF ~pick THEN S.pl ELSE PickupLoad(S.pl, bristle.hasPaint)
        alpha == StampAlpha(st, pl1)
        colour == IF ~st.wetMode THEN st.color ELSE ToChannel(br1.color)
        deposit == alpha >= 10 /\ q # 0
    IN IF skipDry THEN S
       ELSE [pl |-> pl1,
             br |-> [S.br EXCEPT ![b] = br1],
             scratch |-> IF deposit
                         THEN [S.scratch EXCEPT ![q] =
                                 Composite(S.scratch[q],
                                           [v |-> colour, a |-> (alpha * 255) \div 1000],
                                           st.blendMode)]
                         ELSE S.scratch]

\* one bristle at one interpolation step. S = [pl, br, scratch]; q is the
\* tracked pixel the bristle lands on (0: none of them, or outside the wet
\* buffer); wet is the wet buffer content or <<>> when there is none.
StampBristle(S, b, q, st, wet, dist) ==
    LET bristle == S.br[b]
        skipDry == ~IsPastel(st.brushType)
                   /\ DryThreshold(S.pl, dist) > bristle.drySensitivity
        pick == st.wetMode /\ wet # <<>> /\ q # 0 /\ wet[q].a > WET_ALPHA_THRESHOLD
        br1 == IF ~pick THEN bristle
               ELSE IF ~bristle.hasPaint
                    THEN [bristle EXCEPT !.color = wet[q].v * 100, !.hasPaint = TRUE]
                    ELSE [bristle EXCEPT !.color = MixPigmentsGrey(bristle.color, wet[q].v)]
        pl1 == IF ~pick THEN S.pl ELSE PickupLoad(S.pl, bristle.hasPaint)
        alpha == StampAlpha(st, pl1)
        colour == IF ~st.wetMode THEN st.color ELSE ToChannel(br1.color)
        deposit == ~(st.wetMode /\ ~br1.hasPaint) /\ alpha >= 10 /\ q # 0
    IN IF skipDry THEN S
       ELSE [pl |-> pl1,
             br |-> [S.br EXCEPT ![b] = br1],
             scratch |-> IF deposit
                         THEN [S.scratch EXCEPT ![q] =
                                 Composite(S.scratch[q],
                                           [v |-> colour, a |-> (alpha * 255) \div 1000],
                                           st.blendMode)]
                         ELSE S.scratch]

RECURSIVE StampAll(_, _, _, _, _, _)
\* the bristle loop of one brush instance
StampAll(S, b, land, st, wet, dist) ==
    IF b > NBristles THEN S
    ELSE StampAll(StampBristle(S, b, land[b], st, wet, dist), b + 1, land, st, wet, dist)

RECURSIVE StepLoop(_, _, _, _, _, _)
\* the interpolation loop: i = 0..steps, depletion first, then one brush
\* instance (two for the pastel types). S.pl is never negative: reading it
\* makes TLC evaluate S before it descends, which keeps the evaluation stack
\* flat over the iterations.
StepLoop(S, n, land, st, wet, dist) ==
    IF n = 0 \/ S.pl < 0 THEN S
    ELSE LET S0 == [S EXCEPT !.pl = Deplete(S.pl, Depletion(st, S.pl, dist))]
             S1 == StampAll(S0, 1, land, st, wet, dist)
             S2 == IF IsPastel(st.brushType) THEN StampAll(S1, 1, land, st, wet, dist) ELSE S1
         IN StepLoop(S2, n - 1, land, st, wet, dist)

\* the paper height map (refs.heightMapPattern): alpha of the tracked pixels
HeightMap == [p \in Pix |-> IF p % 2 = 1 THEN 255 ELSE 0]

\* Math.pow(n, 0.5) of n millionths, in thousandths; NaN (n < 0) counts as 0,
\* both fail the test textureInfluence > 0.01
ISqrt1000(n) ==
    IF n <= 0 THEN 0
    ELSE CHOOSE r \in 0..1000 : r * r <= n /\ n < (r + 1) * (r + 1)

\* textureInfluence of drawSegment in thousandths, at pressure 1.0
TextureInfluence(st, pl) ==
    IF st.brushType = "pastel" THEN 150
    ELSE IF st.brushType = "pastel2" THEN 100
    ELSE Min(1000, Max(0, ISqrt1000(PL_ONE - pl)))

RECURSIVE WetFoldAll(_, _, _, _)
\* getWetBuffer without the layer.visible test
WetFoldAll(lays, canv, reg, acc) ==
    IF lays = <<>> THEN acc
    ELSE LET l == Head(lays)
             acc1 == IF l.id \in reg /\ l.id \in DOMAIN canv
                     THEN [p \in Pix |-> SourceOver(acc[p], canv[l.id].px[p])]
                     ELSE acc
         IN WetFoldAll(Tail(lays), canv, reg, acc1)

RECURSIVE WetFold(_, _, _, _)
\* getWetBuffer: the visible layers with a registered canvas, drawn bottom
\* to top onto the cleared composite canvas
WetFold(lays, canv, reg, acc) ==
    IF lays = <<>> THEN acc
    ELSE LET l == Head(lays)
             acc1 == IF l.visible /\ l.id \in reg /\ l.id \in DOMAIN canv
                     THEN [p \in Pix |-> SourceOver(acc[p], canv[l.id].px[p])]
                     ELSE acc
         IN WetFold(Tail(lays), canv, reg, acc1)

GetWetBuffer(lays, canv, reg) == WetFold(lays, canv, reg, BlankPx)

\* drawSegment without the isDrawing test of its first line
DrawSegmentUnguarded(T, x, land, st, wet, msk) ==
    LET dist == Abs(x - T.last)
        step10 == StepSize10(st)
    IN IF dist * 10 < step10 /\ T.hasMoved THEN T
       ELSE
         LET steps == CeilDiv(dist * 10, step10)
             S == StepLoop([pl |-> T.pl, br |-> T.br, scratch |-> T.scratch],
                           steps + 1, land, st, wet, dist)
             infl == TextureInfluence(st, S.pl)
             textured == IF st.useTexture /\ infl > 10
                         THEN EraseByTexture(S.scratch, HeightMap, (infl * 255) \div 1000)
                         ELSE S.scratch
         IN [pl |-> S.pl, br |-> S.br,
             scratch |-> EraseByMask(textured, msk.px),
             last |-> x,
             hasMoved |-> IF dist > 4 THEN TRUE ELSE T.hasMoved,
             touched |-> TRUE, drawing |-> T.drawing]

\* drawSegment(x, ...) on T = [pl, br, scratch, last, hasMoved, touched,
\* drawing]; drawing is state.current.isDrawing
DrawSegment(T, x, land, st, wet, msk) ==
    LET dist == Abs(x - T.last)
        step10 == StepSize10(st)
    IN IF ~T.drawing THEN T
       ELSE IF dist * 10 < step10 /\ T.hasMoved THEN T
       ELSE
         LET steps == CeilDiv(dist * 10, step10)
             S == StepLoop([pl |-> T.pl, br |-> T.br, scratch |-> T.scratch],
                           steps + 1, land, st, wet, dist)
             infl == TextureInfluence(st, S.pl)
             textured == IF st.useTexture /\ infl > 10
                         THEN EraseByTexture(S.scratch, HeightMap, (infl * 255) \div 1000)
                         ELSE S.scratch
         IN [pl |-> S.pl, br |-> S.br,
             scratch |-> EraseByMask(textured, msk.px),
             last |-> x,
             hasMoved |-> IF dist > 4 THEN TRUE ELSE T.hasMoved,
             touched |-> TRUE, drawing |-> T.drawing]

RECURSIVE SegmentLoop(_, _, _, _, _, _)
SegmentLoop(T, pts, land, st, wet, msk) ==
    IF pts = <<>> \/ T.pl < 0 THEN T
    ELSE SegmentLoop(DrawSegment(T, Head(pts), land, st, wet, msk),
                     Tail(pts), land, st, wet, msk)

(* ------------------------------ actions -------------------------------- *)
StrokeVars == <<isDrawing, hasMoved, paintLoad, bristles, lastPoint>>
LayerVars == <<layers, activeLayerId, registered, doc, now>>

Commit(canv, msk) ==
    CommitHistory(history, historyIndex, activeLayerId, registered, canv, msk)

\* paintLoad after startStroke: full under auto-clean, else at least a half
StartLoad(pl, st) == IF st.autoClean THEN PL_ONE ELSE Max(pl, PL_HALF)

StartStroke(x) ==
    /\ lastOp' = Did("startStroke")
    /\ opsLeft > 0
    /\ opsLeft' = opsLeft - 1
    /\ isDrawing' = TRUE
    /\ lastPoint' = x
    /\ IF settings.autoClean
       THEN /\ bristles' = [b \in DOMAIN bristles |->
                              IF settings.wetMode
                              THEN [bristles[b] EXCEPT !.hasPaint = FALSE]
                              ELSE [bristles[b] EXCEPT !.color = settings.color * 100,
                                                       !.hasPaint = TRUE]]
       ELSE /\ bristles' = bristles
    /\ paintLoad' = StartLoad(paintLoad, settings)
    /\ hasMoved' = FALSE
    /\ UNCHANGED <<LayerVars, canvases, mask, temp, history, historyIndex,
                   settings, snapshot>>

EndStroke ==
    /\ lastOp' = Did(IF isDrawing THEN "endStroke" ELSE "endStrokeIdle")
    /\ IF isDrawing
       THEN /\ isDrawing' = FALSE
            /\ LET c == Commit(canvases, mask) IN
                 /\ history' = c.h
                 /\ historyIndex' = c.i
       ELSE UNCHANGED <<isDrawing, history, historyIndex>>
    /\ UNCHANGED <<LayerVars, canvases, mask, temp, hasMoved, paintLoad, bristles,
                   lastPoint, settings, snapshot, opsLeft>>

\* drawBatch(points): pts are the x coordinates of the points, land[b] the
\* tracked pixel bristle b lands on during this batch
DrawBatch(pts, land) ==
    /\ lastOp' = Did("drawBatch")
    /\ opsLeft > 0
    /\ pts # <<>>
    /\ pts[1] # lastPoint
    /\ \A k \in 1..(Len(pts) - 1) : pts[k] # pts[k + 1]
    /\ IF ~HasActive(activeLayerId, registered, canvases)
       THEN UNCHANGED <<canvases, temp, hasMoved, paintLoad, bristles, lastPoint, opsLeft>>
       ELSE
         LET wet == IF settings.wetMode
                    THEN GetWetBuffer(layers, canvases, registered) ELSE <<>>
             T0 == [pl |-> paintLoad, br |-> bristles, scratch |-> BlankPx,
                    last |-> lastPoint, hasMoved |-> hasMoved, touched |-> FALSE,
                    drawing |-> isDrawing]
         IN \E T \in {SegmentLoop(T0, pts, land, settings, wet, mask)} :
            /\ paintLoad' = T.pl
            /\ bristles' = T.br
            /\ lastPoint' = T.last
            /\ hasMoved' = T.hasMoved
            /\ temp' = T.scratch
            /\ canvases' = IF T.touched
                           THEN [canvases EXCEPT ![activeLayerId].px =
                                   CompositePx(@, T.scratch, LayerOp(settings))]
                           ELSE canvases
            /\ opsLeft' = IF isDrawing THEN opsLeft - 1 ELSE opsLeft
    /\ UNCHANGED <<LayerVars, mask, isDrawing, history, historyIndex, settings, snapshot>>

\* the scratch-buffer pipeline shared by the fill tools: the shape filled
\* on the cleared scratch buffer, the wet exchange, the paper erosion at
\* globalAlpha 0.5 and the mask erase
FillScratch(region, v, alpha255, st, wet, msk) ==
    LET filled == [p \in Pix |-> IF p \in region /\ alpha255 > 0
                                 THEN [v |-> v, a |-> alpha255] ELSE Transparent]
        mixed == IF wet = <<>> THEN filled
                 ELSE [p \in Pix |->
                         IF filled[p].a > 0 /\ wet[p].a > WET_ALPHA_THRESHOLD
                         THEN [filled[p] EXCEPT !.v = MixOklabGrey(filled[p].v, wet[p].v)]
                         ELSE filled[p]]
        textured == IF st.useTexture
                    THEN [p \in Pix |-> IF p \in region
                                        THEN DestOut(mixed[p], HeightMap[p] \div 2)
                                        ELSE mixed[p]]
                    ELSE mixed
    IN EraseByMask(textured, msk.px)

Opacity255(st) == (st.opacity * 255) \div 1000

\* the tail of a fill tool: composite the scratch buffer, clear it, commit
FillOnto(scratch, op) ==
    /\ canvases' = [canvases EXCEPT ![activeLayerId].px = CompositePx(@, scratch, op)]
    /\ temp' = BlankPx
    /\ LET c == Commit(canvases', mask) IN
         /\ history' = c.h
         /\ historyIndex' = c.i
    /\ opsLeft' = opsLeft - 1

FillWet == IF settings.wetMode /\ ~settings.isEraser
           THEN GetWetBuffer(layers, canvases, registered) ELSE <<>>

DrawLassoFill(region) ==
    /\ lastOp' = Did("drawLassoFill")
    /\ opsLeft > 0
    /\ IF ~HasActive(activeLayerId, registered, canvases)
       THEN UNCHANGED <<canvases, temp, history, historyIndex, opsLeft>>
       ELSE FillOnto(FillScratch(region, settings.color, Opacity255(settings),
                                 settings, FillWet, mask), LayerOp(settings))
    /\ UNCHANGED <<LayerVars, StrokeVars, mask, settings, snapshot>>

DrawRectLassoFill(region) ==
    /\ lastOp' = Did("drawRectLassoFill")
    /\ opsLeft > 0
    /\ IF ~HasActive(activeLayerId, registered, canvases)
       THEN UNCHANGED <<canvases, temp, history, historyIndex, opsLeft>>
       ELSE FillOnto(FillScratch(region, settings.color, Opacity255(settings),
                                 settings, FillWet, mask), LayerOp(settings))
    /\ UNCHANGED <<LayerVars, StrokeVars, mask, settings, snapshot>>

\* dots holds the tracked pixels of the lasso a dot happens to cover
DrawStippleLasso(dots) ==
    /\ lastOp' = Did("drawStippleLasso")
    /\ opsLeft > 0
    /\ IF ~HasActive(activeLayerId, registered, canvases)
       THEN UNCHANGED <<canvases, temp, history, historyIndex, opsLeft>>
       ELSE FillOnto(FillScratch(dots, settings.color, 255, settings, <<>>, mask),
                     LayerOp(settings))
    /\ UNCHANGED <<LayerVars, StrokeVars, mask, settings, snapshot>>

\* the dither draws colour 1 or gradColor2 per pixel: second holds the
\* pixels that got gradColor2
DrawGradBlendLasso(region, second) ==
    /\ lastOp' = Did("drawGradBlendLasso")
    /\ opsLeft > 0
    /\ IF ~HasActive(activeLayerId, registered, canvases)
       THEN UNCHANGED <<canvases, temp, history, historyIndex, opsLeft>>
       ELSE LET a == Opacity255(settings)
                dith == [p \in Pix |-> IF p \notin region THEN Transparent
                                       ELSE [v |-> IF p \in second THEN settings.gradColor2
                                                   ELSE settings.color,
                                             a |-> a]]
                cleaned == [p \in Pix |-> IF dith[p].a = 0 THEN Transparent ELSE dith[p]]
                textured == IF settings.useTexture
                            THEN [p \in Pix |-> DestOut(cleaned[p], HeightMap[p] \div 2)]
                            ELSE cleaned
            IN FillOnto(EraseByMask(textured, mask.px), settings.blendMode)
    /\ UNCHANGED <<LayerVars, StrokeVars, mask, settings, snapshot>>

\* the pattern tools draw the tiles straight onto the active layer; tile is
\* the pixel value of the stamped image
DrawPatternLine(region, tile) ==
    /\ lastOp' = Did("drawPatternLine")
    /\ opsLeft > 0
    /\ IF ~HasActive(activeLayerId, registered, canvases)
       THEN UNCHANGED <<canvases, history, historyIndex, opsLeft>>
       ELSE /\ canvases' = [canvases EXCEPT ![activeLayerId].px =
                              [p \in Pix |-> IF p \in region THEN SourceOver(@[p], tile)
                                             ELSE @[p]]]
            /\ LET c == Commit(canvases', mask) IN
                 /\ history' = c.h
                 /\ historyIndex' = c.i
            /\ opsLeft' = opsLeft - 1
    /\ UNCHANGED <<LayerVars, StrokeVars, mask, temp, settings, snapshot>>

\* region: the tracked pixels inside the lasso clip, tiled holds those a
\* tile covers
DrawPatternLasso(region, tiled, tile) ==
    /\ lastOp' = Did("drawPatternLasso")
    /\ opsLeft > 0
    /\ tiled \subseteq region
    /\ IF ~HasActive(activeLayerId, registered, canvases)
       THEN UNCHANGED <<canvases, history, historyIndex, opsLeft>>
       ELSE /\ canvases' = [canvases EXCEPT ![activeLayerId].px =
                   [p \in Pix |->
                      IF p \notin region THEN @[p]
                      ELSE LET stamped == IF p \in tiled THEN SourceOver(@[p], tile) ELSE @[p]
                               textured == IF settings.useTexture
                                           THEN DestOut(stamped, HeightMap[p] \div 2)
                                           ELSE stamped
                           IN DestOut(textured, mask.px[p].a)]]
            /\ LET c == Commit(canvases', mask) IN
                 /\ history' = c.h
                 /\ historyIndex' = c.i
            /\ opsLeft' = opsLeft - 1
    /\ UNCHANGED <<LayerVars, StrokeVars, mask, temp, settings, snapshot>>

\* drawSkyGradient(p1, p2, isPreview): g is the gradient colour over the
\* tracked pixels
DrawSkyGradient(isPreview, g) ==
    /\ lastOp' = Did("drawSkyGradient")
    /\ opsLeft > 0
    /\ IF ~HasActive(activeLayerId, registered, canvases)
          \/ canvases[activeLayerId].w <= 0 \/ canvases[activeLayerId].h <= 0
       THEN UNCHANGED <<canvases, temp, history, historyIndex, snapshot, opsLeft>>
       ELSE
         LET snap1 == IF isPreview /\ snapshot = <<>>
                      THEN canvases[activeLayerId].px ELSE snapshot
             base == IF isPreview /\ snap1 # <<>> THEN snap1
                     ELSE canvases[activeLayerId].px
             a == Opacity255(settings)
             grad == [p \in Pix |-> IF a > 0 THEN [v |-> g, a |-> a] ELSE Transparent]
             scratch == EraseByMask(grad, mask.px)
         IN /\ canvases' = [canvases EXCEPT ![activeLayerId].px =
                              CompositePx(base, scratch, settings.blendMode)]
            /\ temp' = BlankPx
            /\ opsLeft' = opsLeft - 1
            /\ IF isPreview
               THEN /\ snapshot' = snap1
                    /\ UNCHANGED <<history, historyIndex>>
               ELSE /\ snapshot' = <<>>
                    /\ LET c == Commit(canvases', mask) IN
                         /\ history' = c.h
                         /\ historyIndex' = c.i
    /\ UNCHANGED <<LayerVars, StrokeVars, mask, settings>>

CommitSnapshot ==
    /\ lastOp' = Did("commitSnapshot")
    /\ snapshot' = <<>>
    /\ UNCHANGED <<LayerVars, StrokeVars, canvases, mask, temp, history,
                   historyIndex, settings, opsLeft>>

CancelSnapshot ==
    /\ lastOp' = Did("cancelSnapshot")
    /\ IF HasActive(activeLayerId, registered, canvases) /\ snapshot # <<>>
       THEN /\ canvases' = [canvases EXCEPT ![activeLayerId].px = snapshot]
            /\ snapshot' = <<>>
       ELSE UNCHANGED <<canvases, snapshot>>
    /\ UNCHANGED <<LayerVars, StrokeVars, mask, temp, history, historyIndex,
                   settings, opsLeft>>

(* mask tools *)
MaskOnto(newMask) ==
    /\ mask' = newMask
    /\ LET c == Commit(canvases, mask') IN
         /\ history' = c.h
         /\ historyIndex' = c.i
    /\ opsLeft' = opsLeft - 1
    /\ UNCHANGED <<LayerVars, StrokeVars, canvases, temp, settings, snapshot>>

\* the filled shape on the mask: 'destination-out' when lassoMode is
\* 'subtract', 'source-over' otherwise; edge is the coverage of the pixels
FillMask(region, edge) ==
    [mask EXCEPT !.px =
        [p \in Pix |-> IF p \notin region THEN @[p]
                       ELSE IF settings.lassoMode = "subtract" THEN DestOut(@[p], edge)
                       ELSE SourceOver(@[p], [v |-> MASK_TINT, a |-> edge])]]

DrawLasso(region, edge) ==
    /\ lastOp' = Did("drawLasso")
    /\ opsLeft > 0
    /\ MaskOnto(FillMask(region, edge))

DrawTape(region, edge) ==
    /\ lastOp' = Did("drawTape")
    /\ opsLeft > 0
    /\ MaskOnto(FillMask(region, edge))

ClearMask ==
    /\ lastOp' = Did("clearMask")
    /\ opsLeft > 0
    /\ MaskOnto([mask EXCEPT !.px = BlankPx])

\* data[i + 3] = 256 - data[i + 3], stored in the Uint8ClampedArray
InvertAlphaFrom256(a) == Min(255, 256 - a)

\* data[i + 3] = 255 - data[i + 3]
InvertAlpha(a) == 255 - a

\* the mask pixels after the loop of invertMask and putImageData (a pixel
\* of alpha 0 keeps no colour in the canvas)
InvertPx(mpx) ==
    [p \in Pix |-> IF InvertAlpha(mpx[p].a) = 0 THEN Transparent
                   ELSE [v |-> MASK_TINT, a |-> InvertAlpha(mpx[p].a)]]

InvertMask ==
    /\ lastOp' = Did("invertMask")
    /\ opsLeft > 0
    /\ IF mask.w <= 0 \/ mask.h <= 0
       THEN UNCHANGED <<LayerVars, StrokeVars, canvases, mask, temp, history,
                        historyIndex, settings, snapshot, opsLeft>>
       ELSE MaskOnto([mask EXCEPT !.px = InvertPx(@)])

Clear ==
    /\ lastOp' = Did("clear")
    /\ opsLeft > 0
    /\ IF HasActive(activeLayerId, registered, canvases)
       THEN /\ canvases' = [canvases EXCEPT ![activeLayerId].px = BlankPx]
            /\ LET c == Commit(canvases', mask) IN
                 /\ history' = c.h
                 /\ historyIndex' = c.i
            /\ opsLeft' = opsLeft - 1
       ELSE UNCHANGED <<canvases, history, historyIndex, opsLeft>>
    /\ UNCHANGED <<LayerVars, StrokeVars, mask, temp, settings, snapshot>>

(* layer operations, each followed by the effects its re-render runs *)
MaxLayers == 3

ApplyWorld(W) ==
    /\ canvases' = W.canv
    /\ registered' = W.reg
    /\ mask' = W.mask
    /\ history' = W.h
    /\ historyIndex' = W.i

\* addLayer(): the new id is `layer-${Date.now()}`. When that id is already
\* in the list the two <canvas> elements share a React key; either of them
\* may end up in the component's ref map.
AddLayer ==
    /\ lastOp' = Did("addLayer")
    /\ Len(layers) < MaxLayers
    /\ LET newId == now
           lays == Append(layers, [id |-> newId, visible |-> TRUE])
       IN /\ layers' = lays
          /\ activeLayerId' = newId
          /\ \E c \in {DefaultCanvas} \cup
                      (IF newId \in DOMAIN canvases THEN {canvases[newId]} ELSE {}) :
                LET canv == [id \in DOMAIN canvases \cup {newId} |->
                               IF id = newId THEN c ELSE canvases[id]]
                IN ApplyWorld(InitEngine([World EXCEPT !.canv = canv], lays, newId, doc))
    /\ UNCHANGED <<StrokeVars, temp, doc, settings, snapshot, now, opsLeft>>

RemoveLayer(id) ==
    /\ lastOp' = Did("removeLayer")
    /\ IF Len(layers) <= 1
       THEN /\ registered' = registered \ {id}
            /\ UNCHANGED <<layers, activeLayerId, canvases, mask, history, historyIndex>>
       ELSE LET lays == FilterOut(layers, id)
                act == FixActive(activeLayerId, lays)
                canv == [i \in DOMAIN canvases \cap LayerIds(lays) |-> canvases[i]]
                W == [World EXCEPT !.canv = canv, !.reg = (registered \ {id}) \cap DOMAIN canv]
            IN /\ layers' = lays
               /\ activeLayerId' = act
               /\ ApplyWorld(InitEngine(W, lays, act, doc))
    /\ UNCHANGED <<StrokeVars, temp, doc, settings, snapshot, now, opsLeft>>

\* setActiveLayerId(id) with another id than the current one (React drops
\* an update to the same value)
SetActiveLayerId(id) ==
    /\ lastOp' = Did("setActiveLayerId")
    /\ id # activeLayerId
    /\ activeLayerId' = FixActive(id, layers)
    /\ UNCHANGED <<layers, registered, doc, now, StrokeVars, canvases, mask, temp,
                   history, historyIndex, settings, snapshot, opsLeft>>

ToggleLayerVisibility(id) ==
    /\ lastOp' = Did("toggleLayerVisibility")
    /\ layers' = [k \in DOMAIN layers |->
                    IF layers[k].id = id THEN [layers[k] EXCEPT !.visible = ~@]
                    ELSE layers[k]]
    /\ ApplyWorld(InitEngine(World, layers', activeLayerId, doc))
    /\ UNCHANGED <<activeLayerId, StrokeVars, temp, doc, settings, snapshot, now, opsLeft>>

\* the document is given new dimensions: the hook's resize effect, then the
\* component's init effect
Resize(d) ==
    /\ lastOp' = Did("resize")
    /\ d # doc
    /\ doc' = d
    /\ ApplyWorld(InitEngine(UpdateSize(World, activeLayerId, d), layers, activeLayerId, d))
    /\ UNCHANGED <<layers, activeLayerId, StrokeVars, temp, settings, snapshot, now, opsLeft>>

Tick ==
    /\ lastOp' = Did("tick")
    /\ now < MaxTime
    /\ now' = now + 1
    /\ UNCHANGED <<layers, activeLayerId, registered, doc, StrokeVars, canvases, mask,
                   temp, history, historyIndex, settings, snapshot, opsLeft>>

(* settings *)
\* a settings change and the effects that depend on the changed field:
\* bristle regeneration on brushType, size or wetMode, then the colour
\* effect on color or wetMode
SetSetting(f, v, dry) ==
    /\ lastOp' = Did("setSetting")
    /\ settings[f] # v
    /\ settings' = [settings EXCEPT ![f] = v]
    /\ LET regen == IF f \in {"brushType", "size", "wetMode"}
                    THEN NewBristles(settings', dry) ELSE bristles
       IN bristles' = IF f \in {"color", "wetMode"}
                      THEN RecolorBristles(regen, settings') ELSE regen
    /\ UNCHANGED <<LayerVars, canvases, mask, temp, isDrawing, hasMoved, paintLoad,
                   lastPoint, history, historyIndex, snapshot, opsLeft>>

(* --------------------------- inputs and Init --------------------------- *)
\* document sizes: the default canvas size, the size the app mounts with,
\* and two sizes whose snapshot pairs are a fifth of the budget and more
\* than the budget
Doc(w, h) == [w |-> w, h |-> h]
DocSizes == {Doc(300, 150), Doc(1080, 1080), Doc(2048, 2048), Doc(5120, 4096)}

Regions == (SUBSET Pix) \ {{}}
EdgeAlphas == {255, 128}
Tile == [v |-> 90, a |-> 255]
\* the colour the sky gradient has over the tracked pixels
SkyGreys == {120}

DefaultSettings ==
    [autoClean |-> TRUE, wetMode |-> FALSE, color |-> 162, brushType |-> "flat",
     size |-> 60, opacity |-> 900, useTexture |-> TRUE, blendMode |-> "source-over",
     isEraser |-> FALSE, lassoMode |-> "add", gradColor2 |-> 0]

SettingValues ==
    [autoClean |-> BOOLEAN, wetMode |-> BOOLEAN, color |-> {162, 40},
     brushType |-> {"flat", "pastel"}, size |-> {60, 200}, opacity |-> {900, 300},
     useTexture |-> BOOLEAN, blendMode |-> {"source-over", "multiply"},
     isEraser |-> BOOLEAN, lassoMode |-> {"add", "subtract"}, gradColor2 |-> {0}]

\* the engine once the component is mounted with document size d
MountedEngine(d, dry, n, st) ==
    LET lays == <<[id |-> 0, visible |-> TRUE]>>
        W0 == [canv |-> [id \in {0} |-> DefaultCanvas], reg |-> {},
               mask |-> DefaultCanvas, h |-> <<>>, i |-> -1]
        W == InitEngine(W0, lays, 0, d)
    IN /\ layers = lays
       /\ activeLayerId = 0
       /\ canvases = W.canv
       /\ registered = W.reg
       /\ mask = W.mask
       /\ history = W.h
       /\ historyIndex = W.i
       /\ doc = d
       /\ temp = BlankPx
       /\ isDrawing = FALSE
       /\ hasMoved = FALSE
       /\ paintLoad = PL_ONE
       /\ lastPoint = 0
       /\ settings = st
       /\ bristles = NewBristles(st, dry)
       /\ snapshot = <<>>
       /\ now = 1
       /\ opsLeft = n

\* the state once the component is mounted with document size d
Mounted(d, dry, n, st) ==
    /\ MountedEngine(d, dry, n, st)
    /\ lastOp = [op |-> "init", i |-> -1, n |-> 0, pl |-> PL_ONE]

(* ------------------- layers and history: Spec ------------------------- *)
\* Every operation that commits, undo/redo and the layer operations (two
\* layers added in the same millisecond share their id), on
\* documents of the default canvas size and of 2048 x 2048, with the default
\* settings and one input per drawing tool.
SteadyDry == [b \in 1..NBristles |-> 900]
LayerDocs == {Doc(300, 150), Doc(2048, 2048)}

Init == \E d \in LayerDocs : Mounted(d, SteadyDry, MaxEdits, DefaultSettings)

Next ==
    \/ StartStroke(0)
    \/ EndStroke
    \/ DrawBatch(<<3>>, [b \in 1..NBristles |-> 1])
    \/ DrawLassoFill({1})
    \/ DrawRectLassoFill(Pix)
    \/ DrawStippleLasso({1})
    \/ DrawGradBlendLasso(Pix, {1})
    \/ DrawPatternLine({1}, Tile)
    \/ DrawPatternLasso(Pix, {1}, Tile)
    \/ Clear
    \/ DrawLasso({1}, 255)
    \/ DrawTape(Pix, 255)
    \/ ClearMask
    \/ InvertMask
    \/ Undo
    \/ Redo
    \/ AddLayer
    \/ \E id \in Ids : RemoveLayer(id)
    \/ \E id \in Ids : SetActiveLayerId(id)
    \/ \E d \in LayerDocs : Resize(d)

Spec == Init /\ [][Next]_vars

\* the operations that end with a call of commitHistory
CommitOps ==
    {"endStroke", "drawLassoFill", "drawRectLassoFill", "drawStippleLasso",
     "drawGradBlendLasso", "drawPatternLasso", "drawPatternLine", "drawLasso",
     "drawTape", "clear", "clearMask", "invertMask"}

\* the entry commitHistory pushes in state (act, canv, msk)
SnapshotOf(act, canv, msk) ==
    [layerId |-> act, painting |-> canv[act].px, mask |-> msk.px,
     bytes |-> ImageBytes(canv[act].w, canv[act].h) + ImageBytes(canv[act].w, canv[act].h)]

\* C2: whenever undo() is not a no-op, undo() immediately followed by
\* redo() leaves every layer raster, the mask raster and the history pointer
\* as they were before the undo. Stated for the states in which no stroke is
\* in progress, every layer has its canvas registered, and the mask and the
\* raster of the layer of the entry under the pointer are the ones that
\* entry recorded.
C2_UndoRedoRestores ==
    (/\ historyIndex > 0
     /\ ~isDrawing
     /\ LayerIds(layers) \subseteq registered
     /\ mask.px = history[historyIndex + 1].mask
     /\ history[historyIndex + 1].layerId \in registered
     /\ canvases[history[historyIndex + 1].layerId].px = history[historyIndex + 1].painting)
    => LET u == UndoStep(historyIndex, history, canvases, registered, mask)
           r == RedoStep(u.i, history, u.canv, registered, u.mask)
       IN r.i = historyIndex /\ r.canv = canvases /\ r.mask = mask

C4_BoundaryNoOp ==
    [][(\/ lastOp'.op = "undo" /\ historyIndex <= 0
        \/ lastOp'.op = "redo" /\ historyIndex >= Len(history) - 1)
       => UNCHANGED <<history, historyIndex, canvases, mask>>]_vars

\* undo() was called with the pointer on the oldest of several entries
C4_Witness ==
    /\ lastOp.op = "undo"
    /\ lastOp.i = 0
    /\ lastOp.n >= 2
    /\ historyIndex = 0

\* C5: after every paint or mask operation that ends with a commit, the
\* stack is non-empty, the pointer is on its newest entry, and that entry
\* holds the active layer's raster and the mask raster as they are.
C5_OperationRecordsEntry ==
    lastOp.op \in CommitOps =>
        /\ history # <<>>
        /\ historyIndex = Len(history) - 1
        /\ activeLayerId \in DOMAIN canvases
        /\ history[Len(history)] = SnapshotOf(activeLayerId, canvases, mask)

\* C6: startStroke puts the engine in the Drawing state with hasMoved false;
\* endStroke while Drawing returns it to Idle and commits one snapshot, the
\* newest entry with the pointer on it; endStroke while Idle changes nothing.
C6_StrokeLifecycle ==
    [][/\ lastOp'.op = "startStroke" => (isDrawing' /\ ~hasMoved')
       /\ lastOp'.op = "endStroke" =>
            /\ isDrawing /\ ~isDrawing'
            /\ history' # <<>>
            /\ Len(history') <= Min(historyIndex + 1, Len(history)) + 1
            /\ historyIndex' = Len(history') - 1
            /\ activeLayerId \in DOMAIN canvases
            /\ history'[Len(history')] = SnapshotOf(activeLayerId, canvases, mask)
       /\ lastOp'.op = "endStrokeIdle" =>
            /\ ~isDrawing
            /\ UNCHANGED <<layers, activeLayerId, canvases, registered, mask, temp, doc,
                           isDrawing, hasMoved, paintLoad, bristles, history,
                           historyIndex, settings, lastPoint, snapshot, now>>]_vars

(* ------------------- the history caps: SpecCap ------------------------ *)
\* One layer, every document size, and enough committing operations to fill
\* the history past its entry cap.
MaxStrokes == 21

InitCap == \E d \in DocSizes : Mounted(d, SteadyDry, MaxStrokes, DefaultSettings)

NextCap ==
    \/ StartStroke(0)
    \/ EndStroke
    \/ Clear
    \/ ClearMask
    \/ Undo
    \/ Redo

SpecCap == InitCap /\ [][NextCap]_vars

\* C1: in every reachable state the history holds at most 20 entries and
\* the byte lengths of all stored layer and mask snapshots sum to at most
\* MAX_HISTORY_BYTES.
C1_HistoryBounded ==
    /\ Len(history) <= HISTORY_MAX_ENTRIES
    /\ SumBytes(history) <= MAX_HISTORY_BYTES

\* a commit found the stack full, with the pointer on its newest entry, and
\* left it full
C1_Witness ==
    /\ lastOp.op \in {"endStroke", "clear", "clearMask"}
    /\ lastOp.n = HISTORY_MAX_ENTRIES
    /\ lastOp.i = HISTORY_MAX_ENTRIES - 1
    /\ Len(history) = HISTORY_MAX_ENTRIES
    /\ historyIndex = HISTORY_MAX_ENTRIES - 1

(* ----------------------- the layer list: SpecLayers ------------------- *)
\* The layer operations under a running clock, with one fill tool, clear
\* and undo/redo to give the layers content.
InitLayers == \E d \in LayerDocs : Mounted(d, SteadyDry, MaxEdits, DefaultSettings)

NextLayers ==
    \/ AddLayer
    \/ \E id \in Ids : RemoveLayer(id)
    \/ \E id \in Ids : SetActiveLayerId(id)
    \/ \E id \in Ids : ToggleLayerVisibility(id)
    \/ Tick
    \/ DrawLassoFill({1})
    \/ Clear
    \/ Undo
    \/ Redo

SpecLayers == InitLayers /\ [][NextLayers]_vars

\* C10: the layer list never has fewer than one layer, whatever addLayer
\* and removeLayer calls were made.
C10_AtLeastOneLayer == Len(layers) >= 1

(* ------------------------ the paint load: SpecStroke ------------------ *)
\* Strokes of the widest brush on one layer under every combination of
\* auto-clean, wet mode and brush type.
MaxStrokeOps == 4
StrokePoints == {<<3>>, <<400>>, <<400, 0>>}
StrokeLandings == {[b \in 1..NBristles |-> 0], [b \in 1..NBristles |-> 1]}
StrokeDry == {SteadyDry, [b \in 1..NBristles |-> IF b = 1 THEN 400 ELSE 900]}

WideBrush == [DefaultSettings EXCEPT !.size = 200]

InitStroke == \E dry \in StrokeDry : Mounted(Doc(300, 150), dry, MaxStrokeOps, WideBrush)

NextStroke ==
    \/ \E x \in {0, 400} : StartStroke(x)
    \/ EndStroke
    \/ \E pts \in StrokePoints, land \in StrokeLandings : DrawBatch(pts, land)
    \/ \E f \in {"autoClean", "wetMode", "brushType"}, dry \in StrokeDry :
          \E v \in SettingValues[f] : SetSetting(f, v, dry)

SpecStroke == InitStroke /\ [][NextStroke]_vars

\* C7: paintLoad stays within [0, 1] in every reachable state.
C7_PaintLoadInRange == 0 <= paintLoad /\ paintLoad <= PL_ONE

\* a drawBatch has drained the brush to the lower end of the range
C7_Witness == lastOp.op = "drawBatch" /\ isDrawing /\ paintLoad = 0

\* C8 as stated: paintLoad increases only in a startStroke with auto-clean
\* enabled or in a wet-mode drawBatch (never in a dry one).
C8_OnlyCleanOrPickupRaises ==
    [][paintLoad' > paintLoad =>
         \/ lastOp'.op = "startStroke" /\ settings.autoClean
         \/ lastOp'.op = "drawBatch" /\ settings.wetMode]_vars

\* C8 with startStroke's floor: paintLoad increases only in a startStroke,
\* to full under auto-clean and to a half otherwise, or in a wet-mode
\* drawBatch of an active stroke (never in a dry one).
C8_OnlyStartOrPickupRaises ==
    [][paintLoad' > paintLoad =>
         \/ lastOp'.op = "startStroke" /\ settings.autoClean /\ paintLoad' = PL_ONE
         \/ lastOp'.op = "startStroke" /\ ~settings.autoClean /\ paintLoad' = PL_HALF
         \/ lastOp'.op = "drawBatch" /\ settings.wetMode /\ isDrawing]_vars

\* a startStroke without auto-clean has left the brush at the floor
C8_Witness ==
    /\ lastOp.op = "startStroke"
    /\ ~settings.autoClean
    /\ ~settings.wetMode
    /\ lastOp.pl < PL_HALF
    /\ paintLoad = PL_HALF

(* --------------------------- the mask: SpecMask ----------------------- *)
\* One layer of the default canvas size, the mask tools, and every paint
\* tool under texture, eraser, blend mode and lasso mode.
MaxMaskOps == 3

\* where the bristles land: both on one tracked pixel, or one on each
MaskLandings == {[b \in 1..NBristles |-> 1], [b \in 1..NBristles |-> b]}

InitMask == Mounted(Doc(300, 150), SteadyDry, MaxMaskOps, DefaultSettings)

NextMask ==
    \/ \E r \in Regions, e \in EdgeAlphas : DrawLasso(r, e)
    \/ DrawTape({2}, 255)
    \/ InvertMask
    \/ ClearMask
    \/ StartStroke(0)
    \/ EndStroke
    \/ \E land \in MaskLandings : DrawBatch(<<400>>, land)
    \/ DrawLassoFill(Pix)
    \/ DrawRectLassoFill(Pix)
    \/ DrawStippleLasso({1})
    \/ DrawGradBlendLasso(Pix, {1})
    \/ DrawPatternLine({1}, Tile)
    \/ DrawPatternLasso(Pix, {1}, Tile)
    \/ \E pre \in BOOLEAN, g \in SkyGreys : DrawSkyGradient(pre, g)
    \/ CommitSnapshot
    \/ CancelSnapshot
    \/ \E f \in {"useTexture", "isEraser", "blendMode", "lassoMode"} :
          \E v \in SettingValues[f] : SetSetting(f, v, SteadyDry)

SpecMask == InitMask /\ [][NextMask]_vars

\* the paint operations
PaintOps ==
    {"drawBatch", "drawLassoFill", "drawRectLassoFill", "drawStippleLasso",
     "drawGradBlendLasso", "drawPatternLasso", "drawPatternLine", "drawSkyGradient"}

\* C9: a paint operation leaves every pixel of the active layer unchanged
\* where the mask's alpha is fully opaque.
C9_MaskProtects ==
    [][lastOp'.op \in PaintOps =>
         \A p \in Pix : mask.px[p].a = 255 =>
             canvases'[activeLayerId].px[p] = canvases[activeLayerId].px[p]]_vars

(* ------------------- more on layers and history ----------------------- *)
\* C11: removeLayer called when only one layer remains changes nothing: the
\* layer list, the active layer id, the layer canvases and the set of layers
\* with a registered canvas and context are all as before.
C11_SoleLayerRemovalNoOp ==
    [][(lastOp'.op = "removeLayer" /\ Len(layers) <= 1)
       => UNCHANGED <<layers, activeLayerId, canvases, registered>>]_vars

\* the paint operations that draw and commit in one call
FillOps ==
    {"drawLassoFill", "drawRectLassoFill", "drawStippleLasso", "drawGradBlendLasso",
     "drawPatternLasso", "drawPatternLine", "clear"}

\* C19: with two or more layers, all registered, no stroke or preview in
\* progress, and the pointer on the newest entry, which holds the mask and
\* its layer's raster as they are: after a paint operation commits, one
\* undo() gives every layer raster and the mask the content they had just
\* before the operation.
C19_UndoRevertsPaint ==
    [][(/\ lastOp'.op \in FillOps
        /\ Len(layers) >= 2
        /\ LayerIds(layers) \subseteq registered
        /\ ~isDrawing
        /\ snapshot = <<>>
        /\ historyIndex >= 0
        /\ historyIndex = Len(history) - 1
        /\ mask.px = history[historyIndex + 1].mask
        /\ history[historyIndex + 1].layerId \in registered
        /\ canvases[history[historyIndex + 1].layerId].px
              = history[historyIndex + 1].painting
        /\ Len(history') = Len(history) + 1)
       => LET u == UndoStep(historyIndex', history', canvases', registered', mask')
          IN u.canv = canvases /\ u.mask = mask]_vars

(* ---------------------- the history pointer: SpecPointer -------------- *)
\* SpecCap's operations together with changes of the document size, which
\* reset the history.
NextPointer ==
    \/ NextCap
    \/ \E d \in DocSizes : Resize(d)

SpecPointer == InitCap /\ [][NextPointer]_vars

\* C20: in every reachable state -1 <= historyIndex <= history.length - 1,
\* with historyIndex = -1 only when the history is empty; and right after a
\* commit (by an operation or by the resize that resets the history),
\* evicting or not, historyIndex = history.length - 1.
C20_PointerInRange ==
    /\ -1 <= historyIndex
    /\ historyIndex <= Len(history) - 1
    /\ (historyIndex = -1 => history = <<>>)
    /\ (lastOp.op \in CommitOps \cup {"resize"} => historyIndex = Len(history) - 1)

\* a commit on a 2048 x 2048 document found the four entries the byte
\* budget admits, pointer on the newest, and evicted the oldest
C20_Witness ==
    /\ doc = Doc(2048, 2048)
    /\ lastOp.op \in CommitOps
    /\ lastOp.n = 4
    /\ lastOp.i = 3
    /\ Len(history) = 4
    /\ historyIndex = 3
    /\ SumBytes(history) + history[1].bytes > MAX_HISTORY_BYTES

(* ------------------------- mask inversion ----------------------------- *)
\* C13: when invertMask is called twice in a row, every mask pixel has after
\* the second call the alpha it had before the first (the mask the history
\* entry below the first call's entry recorded).
C13_InvertTwiceRestoresAlpha ==
    [][(/\ lastOp.op = "invertMask"
        /\ lastOp'.op = "invertMask"
        /\ historyIndex = Len(history) - 1
        /\ Len(history) >= 2)
       => \A p \in Pix : mask'.px[p].a = history[Len(history) - 1].mask[p].a]_vars

\* two inversions in a row of a mask with a partly covered pixel, the first
\* of them having changed the mask
C13_Witness ==
    /\ lastOp.op = "invertMask"
    /\ Len(history) = 4
    /\ historyIndex = 3
    /\ history[3].mask = InvertPx(history[2].mask)
    /\ history[3].mask # history[2].mask
    /\ mask.px = history[4].mask
    /\ \E p \in Pix : history[2].mask[p].a > 0 /\ history[2].mask[p].a < 255
    /\ \A p \in Pix : mask.px[p].a = history[2].mask[p].a

(* --------------------------- resizing: SpecResize --------------------- *)
\* Documents that grow and shrink, down to a single pixel, under layers
\* and a mask with content. A lasso that covers the last tracked pixel needs
\* a document wide enough to hold it.
MaxResizeOps == 3
ResizeDocs == {Doc(1, 1), Doc(300, 150), Doc(2048, 2048)}

InitResize == Mounted(Doc(300, 150), SteadyDry, MaxResizeOps, DefaultSettings)

NextResize ==
    \/ DrawLassoFill({1})
    \/ (doc.w >= NPix /\ DrawLassoFill(Pix))
    \/ DrawLasso({1}, 128)
    \/ (doc.w >= NPix /\ DrawLasso({NPix}, 255))
    \/ AddLayer
    \/ \E id \in Ids : SetActiveLayerId(id)
    \/ \E d \in ResizeDocs : Resize(d)

SpecResize == InitResize /\ [][NextResize]_vars

Channels == {0, 1, 15, 16, 127, 128, 255}
Pigments == {Rgb(255, 255, 0), Rgb(255, 0, 255), Rgb(40, 40, 40)}
HalfSteps == {0, 1, 2}

InitColor ==
    /\ MountedEngine(Doc(300, 150), SteadyDry, 0, DefaultSettings)
    /\ \E r \in Channels, g \in Channels, b \in Channels, c2 \in Pigments,
          t2 \in HalfSteps :
         lastOp = [op |-> "input", c1 |-> Rgb(r, g, b), c2 |-> c2, t2 |-> t2,
                   hex |-> <<>>, out |-> Rgb(0, 0, 0)]

RgbToHexCall ==
    /\ lastOp.op = "input"
    /\ lastOp' = [lastOp EXCEPT !.op = "rgbToHex",
                    !.hex = RgbToHex(lastOp.c1.r, lastOp.c1.g, lastOp.c1.b)]
    /\ UNCHANGED <<layers, activeLayerId, canvases, registered, mask, temp, doc,
                   isDrawing, hasMoved, paintLoad, bristles, history,
                   historyIndex, settings, lastPoint, snapshot, now, opsLeft>>

HexToRgbCall ==
    /\ lastOp.op = "rgbToHex"
    /\ lastOp' = [lastOp EXCEPT !.op = "hexToRgb", !.out = HexToRgb(lastOp.hex)]
    /\ UNCHANGED <<layers, activeLayerId, canvases, registered, mask, temp, doc,
                   isDrawing, hasMoved, paintLoad, bristles, history,
                   historyIndex, settings, lastPoint, snapshot, now, opsLeft>>

MixPigmentsCall ==
    /\ lastOp.op = "input"
    /\ lastOp' = [lastOp EXCEPT !.op = "mixPigments",
                    !.out = MixPigments(lastOp.c1, lastOp.c2, lastOp.t2)]
    /\ UNCHANGED <<layers, activeLayerId, canvases, registered, mask, temp, doc,
                   isDrawing, hasMoved, paintLoad, bristles, history,
                   historyIndex, settings, lastPoint, snapshot, now, opsLeft>>

NextColor == RgbToHexCall \/ HexToRgbCall \/ MixPigmentsCall

SpecColor == InitColor /\ [][NextColor]_vars

\* C17: mixPigments of pure cyan and pure yellow at t = 0.5 gives a colour
\* whose green channel is greater than its red and its blue channel.
C17_CyanYellowIsGreen ==
    (lastOp.op = "mixPigments" /\ lastOp.c1 = Rgb(0, 255, 255)
       /\ lastOp.c2 = Rgb(255, 255, 0) /\ lastOp.t2 = 1)
    => (lastOp.out.g > lastOp.out.r /\ lastOp.out.g > lastOp.out.b)

C17_Witness ==
    /\ lastOp.op = "mixPigments"
    /\ lastOp.c1 = Rgb(0, 255, 255)
    /\ lastOp.c2 = Rgb(255, 255, 0)
    /\ lastOp.t2 = 1
    /\ lastOp.out = Rgb(128, 255, 128)

\* C18: hexToRgb(rgbToHex(r, g, b)) is (r, g, b) for integer channels in
\* 0..255.
C18_HexRoundTrip ==
    lastOp.op = "hexToRgb" => lastOp.out = lastOp.c1

C18_Witness ==
    /\ lastOp.op = "hexToRgb"
    /\ lastOp.c1 = Rgb(0, 15, 128)
    /\ lastOp.hex = <<"#", "0", "0", "0", "f", "8", "0">>
    /\ lastOp.out = Rgb(0, 15, 128)

(* ------------------------- the colour picker: SpecPick ---------------- *)
RECURSIVE PickLayer(_, _, _, _, _)
\* the loop of pickColor from layer i down: the colour of the first visible
\* layer with a registered context whose pixel p has alpha, <<"null">> at a
\* canvas of width 0, <<>> when the loop ends without a result
PickLayer(lays, i, canv, reg, p) ==
    IF i = 0 THEN <<>>
    ELSE LET layer == lays[i] IN
         IF ~layer.visible \/ layer.id \notin reg
         THEN PickLayer(lays, i - 1, canv, reg, p)
         ELSE IF canv[layer.id].w = 0 THEN <<"null">>
         ELSE LET pixel == IF p <= canv[layer.id].w /\ canv[layer.id].h > 0
                           THEN canv[layer.id].px[p] ELSE Transparent IN
              IF pixel.a > 0 THEN RgbToHex(pixel.v, pixel.v, pixel.v)
              ELSE PickLayer(lays, i - 1, canv, reg, p)

\* pickColor(x, y) at pixel p; sky is the set holding the sample of
\* sampleSkyRGB, empty when it returns null; bg is canvasColorRef.current
PickColor(lays, canv, reg, p, skyEnabled, sky, bg) ==
    LET hit == PickLayer(lays, Len(lays), canv, reg, p) IN
    IF hit # <<>> THEN hit
    ELSE IF skyEnabled /\ sky # {}
    THEN LET skyRgb == CHOOSE c \in sky : TRUE IN RgbToHex(skyRgb.r, skyRgb.g, skyRgb.b)
    ELSE bg

CanvasColors == {<<"#", "f", "4", "f", "1", "e", "a">>}
SkySamples == {{}, {Rgb(70, 130, 210)}}

PickColorCall(p, skyEnabled, sky, bg) ==
    /\ lastOp' = [op |-> "pickColor", i |-> historyIndex, n |-> Len(history),
                  pl |-> paintLoad, p |-> p, skyEnabled |-> skyEnabled,
                  sky |-> sky, bg |-> bg,
                  res |-> PickColor(layers, canvases, registered, p,
                                    skyEnabled, sky, bg)]
    /\ UNCHANGED <<layers, activeLayerId, canvases, registered, mask, temp, doc,
                   isDrawing, hasMoved, paintLoad, bristles, history,
                   historyIndex, settings, lastPoint, snapshot, now, opsLeft>>

MaxPickOps == 2

InitPick == Mounted(Doc(300, 150), SteadyDry, MaxPickOps, DefaultSettings)

NextPick ==
    \/ DrawLassoFill({1})
    \/ \E v \in SettingValues.color : SetSetting("color", v, SteadyDry)
    \/ AddLayer
    \/ \E id \in Ids : RemoveLayer(id)
    \/ \E id \in Ids : SetActiveLayerId(id)
    \/ \E id \in Ids : ToggleLayerVisibility(id)
    \/ \E p \in Pix, skyEnabled \in BOOLEAN, sky \in SkySamples, bg \in CanvasColors :
         PickColorCall(p, skyEnabled, sky, bg)

SpecPick == InitPick /\ [][NextPick]_vars

\* C12: pickColor returns the colour of the topmost visible layer whose
\* pixel at the point has non-zero alpha; when there is none, the sky sample
\* if the sky is enabled and available; otherwise the canvas background
\* colour. A hidden layer never determines the result.
C12_PickTopmostVisible ==
    lastOp.op = "pickColor" =>
      LET tops == {k \in DOMAIN layers :
                     layers[k].visible /\ canvases[layers[k].id].px[lastOp.p].a > 0}
          top == CHOOSE k \in tops : \A j \in tops : j <= k
          pixel == canvases[layers[top].id].px[lastOp.p]
      IN lastOp.res =
           IF tops # {} THEN RgbToHex(pixel.v, pixel.v, pixel.v)
           ELSE IF lastOp.skyEnabled /\ lastOp.sky # {}
           THEN LET c == CHOOSE c \in lastOp.sky : TRUE IN RgbToHex(c.r, c.g, c.b)
           ELSE lastOp.bg

(* ---------------------- pattern tiles: SpecPattern -------------------- *)
\* Lengths are in pixels, angles in thousandths of a degree, scales,
\* jitter amounts and hash fractions in thousandths.

\* seed = Math.sin(gx * 12.9898 + gy * 78.233) * 43758.5453 and the five
\* fractions taken from it, tabulated for the grid points of PatternPolygons
PatternHash ==
    <<-80, -80>> :> [r1 |-> 202, r2 |-> 804, r3 |-> 405, r4 |-> -997, r5 |-> -254]
    @@ <<-40, -80>> :> [r1 |-> 762, r2 |-> 143, r3 |-> 524, r4 |-> 730, r5 |-> 972]
    @@ <<0, -80>> :> [r1 |-> 830, r2 |-> 746, r3 |-> 661, r4 |-> -500, r5 |-> -11]
    @@ <<40, -80>> :> [r1 |-> 228, r2 |-> 842, r3 |-> 457, r4 |-> -94, r5 |-> -204]
    @@ <<80, -80>> :> [r1 |-> 626, r2 |-> 439, r3 |-> 252, r4 |-> 743, r5 |-> 988]
    @@ <<-80, -40>> :> [r1 |-> 717, r2 |-> 575, r3 |-> 434, r4 |-> -959, r5 |-> -871]
    @@ <<-40, -40>> :> [r1 |-> 423, r2 |-> 635, r3 |-> 847, r4 |-> 624, r5 |-> 333]
    @@ <<0, -40>> :> [r1 |-> 373, r2 |-> 60, r3 |-> 747, r4 |-> -536, r5 |-> -135]
    @@ <<40, -40>> :> [r1 |-> 53, r2 |-> 579, r3 |-> 106, r4 |-> -57, r5 |-> -560]
    @@ <<80, -40>> :> [r1 |-> 262, r2 |-> 894, r3 |-> 525, r4 |-> 565, r5 |-> 454]
    @@ <<-80, 0>> :> [r1 |-> 266, r2 |-> 899, r3 |-> 532, r4 |-> -951, r5 |-> -371]
    @@ <<-40, 0>> :> [r1 |-> 403, r2 |-> 605, r3 |-> 806, r4 |-> 492, r5 |-> 709]
    @@ <<0, 0>> :> [r1 |-> 0, r2 |-> 0, r3 |-> 0, r4 |-> 0, r5 |-> 0]
    @@ <<40, 0>> :> [r1 |-> 596, r2 |-> 394, r3 |-> 193, r4 |-> -492, r5 |-> -709]
    @@ <<80, 0>> :> [r1 |-> 733, r2 |-> 100, r3 |-> 467, r4 |-> 951, r5 |-> 371]
    @@ <<-80, 40>> :> [r1 |-> 737, r2 |-> 105, r3 |-> 474, r4 |-> -565, r5 |-> -454]
    @@ <<-40, 40>> :> [r1 |-> 946, r2 |-> 420, r3 |-> 893, r4 |-> 57, r5 |-> 560]
    @@ <<0, 40>> :> [r1 |-> 626, r2 |-> 939, r3 |-> 252, r4 |-> 536, r5 |-> 135]
    @@ <<40, 40>> :> [r1 |-> 576, r2 |-> 364, r3 |-> 152, r4 |-> -624, r5 |-> -333]
    @@ <<80, 40>> :> [r1 |-> 282, r2 |-> 424, r3 |-> 565, r4 |-> 959, r5 |-> 871]

\* the jitter fractions of a tile drawn from Math.random
PatternJitterRandom(gx, gy, rnd) ==
    [r1 |-> rnd, r2 |-> rnd, r3 |-> rnd, r4 |-> rnd, r5 |-> rnd]

\* rand1..rand5 of the tile at grid point (gx, gy); rnd is the value
\* Math.random would return next
PatternJitter(gx, gy, rnd) == PatternHash[<<gx, gy>>]

\* a % m of JavaScript for m > 0
JsRem(a, m) == IF a >= 0 THEN a % m ELSE 0 - ((0 - a) % m)

\* the tiles the loops of drawPatternLasso draw, in drawing order
PatternLassoTiles(points, st, img, rnd) ==
    IF ~img \/ Len(points) < 3 THEN <<>>
    ELSE
    LET xs == {points[k].x : k \in DOMAIN points}
        ys == {points[k].y : k \in DOMAIN points}
        padding == Max(20, (50 * st.patternScale) \div 1000)
        minX == (CHOOSE x \in xs : \A z \in xs : x <= z) - padding
        maxX == (CHOOSE x \in xs : \A z \in xs : x >= z) + padding
        minY == (CHOOSE y \in ys : \A z \in ys : y <= z) - padding
        maxY == (CHOOSE y \in ys : \A z \in ys : y >= z) + padding
        baseVisualSize == Max(15, (50 * st.patternScale) \div 1000)
        step == (baseVisualSize * 8) \div 10
        startGridX == (minX \div step) * step
        startGridY == (minY \div step) * step
        nx == (maxX - startGridX + step - 1) \div step
        ny == (maxY - startGridY + step - 1) \div step
        TileAt(gx, gy) ==
            LET j == PatternJitter(gx, gy, rnd)
                rot0 == st.patternStampRotation * 1000
                instanceRot ==
                    IF st.patternJitterRotation > 0
                    THEN JsRem(rot0 + ((j.r1 - 500) * 2 * st.patternJitterRotation * 180) \div 1000,
                               360000)
                    ELSE rot0
                scaleMult == 1000 + ((j.r2 - 500) * 2 * st.patternJitterScale) \div 1000
                instanceScale ==
                    IF st.patternJitterScale > 0
                    THEN (st.patternScale * Max(100, scaleMult)) \div 1000
                    ELSE st.patternScale
                hue == IF st.patternJitterHue > 0
                       THEN <<<<"hue-rotate", ((j.r3 - 500) * 360 * st.patternJitterHue) \div 1000>>>>
                       ELSE <<>>
                sat == IF st.patternJitterSaturation > 0
                       THEN <<<<"saturate",
                                Max(0, 100000 + ((Abs(j.r4) - 500) * 200 * st.patternJitterSaturation) \div 1000)>>>>
                       ELSE <<>>
                val == IF st.patternJitterValue > 0
                       THEN <<<<"brightness",
                                Max(0, 100000 + ((Abs(j.r5) - 500) * 200 * st.patternJitterValue) \div 1000)>>>>
                       ELSE <<>>
            IN [x |-> gx + step \div 2, y |-> gy + step \div 2,
                rot |-> instanceRot + st.patternAngle * 1000,
                scale |-> instanceScale, filter |-> hue \o sat \o val]
    IN IF ((maxX - minX) * (maxY - minY)) \div (step * step) > 5000 THEN <<>>
       ELSE [k \in 1..(nx * ny) |->
               TileAt(startGridX + ((k - 1) % nx) * step,
                      startGridY + ((k - 1) \div nx) * step)]

MaxPatternCalls == 2
PatternPolygons ==
    {<<[x |-> 0, y |-> 0], [x |-> 10, y |-> 0], [x |-> 0, y |-> 10]>>,
     <<[x |-> 30, y |-> 0], [x |-> 40, y |-> 0], [x |-> 30, y |-> 10]>>}
PatternSettings ==
    [patternScale : {1000}, patternAngle : {0}, patternStampRotation : {0, 90},
     patternJitterRotation : {0, 500}, patternJitterScale : {0, 500},
     patternJitterHue : {0, 500}, patternJitterSaturation : {0, 500},
     patternJitterValue : {0, 500}]
Randoms == {0, 250, 999}

InitPattern ==
    /\ MountedEngine(Doc(300, 150), SteadyDry, 0, DefaultSettings)
    /\ \E points \in PatternPolygons, st \in PatternSettings, img \in BOOLEAN :
         lastOp = [op |-> "input", points |-> points, st |-> st, img |-> img,
                   calls |-> 0, tiles |-> <<>>]

PatternLassoCall(rnd) ==
    /\ lastOp.calls < MaxPatternCalls
    /\ lastOp' = [lastOp EXCEPT !.op = "drawPatternLasso", !.calls = @ + 1,
                    !.tiles = PatternLassoTiles(lastOp.points, lastOp.st, lastOp.img, rnd)]
    /\ UNCHANGED <<layers, activeLayerId, canvases, registered, mask, temp, doc,
                   isDrawing, hasMoved, paintLoad, bristles, history,
                   historyIndex, settings, lastPoint, snapshot, now, opsLeft>>

NextPattern == \E rnd \in Randoms : PatternLassoCall(rnd)

SpecPattern == InitPattern /\ [][NextPattern]_vars

\* C16: drawPatternLasso called again with the same vertices and settings
\* places the same tiles (grid position, rotation, scale, colour filter):
\* the jitter of a tile comes from its grid coordinates only.
C16_PatternTilesReproducible ==
    [][(lastOp.op = "drawPatternLasso" /\ lastOp'.op = "drawPatternLasso"
          /\ lastOp'.points = lastOp.points /\ lastOp'.st = lastOp.st
          /\ lastOp'.img = lastOp.img)
       => lastOp'.tiles = lastOp.tiles]_vars

\* a second call has placed sixteen tiles under every kind of jitter, and
\* the jitter differs between tiles
C16_Witness ==
    /\ lastOp.op = "drawPatternLasso"
    /\ lastOp.calls = 2
    /\ lastOp.st.patternJitterRotation > 0
    /\ lastOp.st.patternJitterScale > 0
    /\ lastOp.st.patternJitterHue > 0
    /\ lastOp.st.patternJitterSaturation > 0
    /\ lastOp.st.patternJitterValue > 0
    /\ Len(lastOp.tiles) = 16
    /\ lastOp.tiles[1].x = -60
    /\ \E k \in 1..16, j \in 1..16 :
         /\ lastOp.tiles[k].rot # lastOp.tiles[j].rot
         /\ lastOp.tiles[k].scale # lastOp.tiles[j].scale
         /\ lastOp.tiles[k].filter # lastOp.tiles[j].filter

(* ------------------------------ sky: SpecSky -------------------------- *)
\* Elevation, density, humidity, horizon, scale and interpolation factors
\* are in thousandths; colours are integer channels.
SKY_KEYS ==
    [day |-> [zenith |-> Rgb(25, 70, 160), upper |-> Rgb(70, 130, 210),
              ozone |-> Rgb(110, 170, 230), glow |-> Rgb(180, 210, 240),
              horizon |-> Rgb(210, 235, 255), sun |-> Rgb(255, 255, 245)],
     golden |-> [zenith |-> Rgb(30, 60, 130), upper |-> Rgb(70, 100, 180),
                 ozone |-> Rgb(140, 150, 200), glow |-> Rgb(255, 180, 100),
                 horizon |-> Rgb(255, 200, 50), sun |-> Rgb(255, 240, 210)],
     sunset |-> [zenith |-> Rgb(30, 42, 58), upper |-> Rgb(65, 80, 100),
                 ozone |-> Rgb(110, 100, 100), glow |-> Rgb(180, 90, 50),
                 horizon |-> Rgb(130, 50, 20), sun |-> Rgb(255, 200, 140)],
     civil_twilight |-> [zenith |-> Rgb(15, 25, 40), upper |-> Rgb(40, 50, 70),
                         ozone |-> Rgb(80, 60, 65), glow |-> Rgb(120, 50, 30),
                         horizon |-> Rgb(60, 25, 10), sun |-> Rgb(255, 50, 50)],
     nautical_twilight |-> [zenith |-> Rgb(5, 8, 25), upper |-> Rgb(15, 20, 50),
                            ozone |-> Rgb(30, 35, 70), glow |-> Rgb(60, 50, 80),
                            horizon |-> Rgb(20, 15, 30), sun |-> Rgb(50, 10, 10)],
     night |-> [zenith |-> Rgb(0, 1, 8), upper |-> Rgb(1, 3, 15),
                ozone |-> Rgb(5, 8, 20), glow |-> Rgb(8, 12, 25),
                horizon |-> Rgb(10, 15, 30), sun |-> Rgb(0, 0, 0)]]

\* lerpColor(c1, c2, t)
LerpColor(c1, c2, t) ==
    Rgb(RoundDiv(c1.r * 1000 + (c2.r - c1.r) * t, 1000),
        RoundDiv(c1.g * 1000 + (c2.g - c1.g) * t, 1000),
        RoundDiv(c1.b * 1000 + (c2.b - c1.b) * t, 1000))

\* the elevation band of calculateSkyPhysics: the two key palettes and the
\* factor between them; dark when the sun and bloom colours are black
SkyBand(elevation) ==
    IF elevation > 200
    THEN [lo |-> SKY_KEYS.golden, hi |-> SKY_KEYS.day,
          t |-> Max(0, Min(1000, ((elevation - 200) * 1000) \div 800)), dark |-> FALSE]
    ELSE IF elevation > 0
    THEN [lo |-> SKY_KEYS.sunset, hi |-> SKY_KEYS.golden,
          t |-> (elevation * 1000) \div 200, dark |-> FALSE]
    ELSE IF elevation > -60
    THEN [lo |-> SKY_KEYS.civil_twilight, hi |-> SKY_KEYS.sunset,
          t |-> ((elevation + 60) * 1000) \div 60, dark |-> FALSE]
    ELSE IF elevation > -120
    THEN [lo |-> SKY_KEYS.nautical_twilight, hi |-> SKY_KEYS.civil_twilight,
          t |-> ((elevation + 120) * 1000) \div 60, dark |-> FALSE]
    ELSE [lo |-> SKY_KEYS.night, hi |-> SKY_KEYS.nautical_twilight,
          t |-> Max(0, Min(1000, ((elevation + 250) * 1000) \div 130)), dark |-> TRUE]

\* the scattering, vacuum and haze passes of calculateSkyPhysics over the
\* colours of a band; a pass the code skips is a mix with factor 0
SkyPasses(band, elevation, density, humidity) ==
    LET vacuumFactor == IF density < 150 THEN ((150 - density) * 1000) \div 150 ELSE 0
        atmosphereStrength == Min(1000, (density * 15) \div 10)
        sunLightIntensity == Max(0, Min(1000, elevation + 300))
        scatterStrength == (ISqrt1000(atmosphereStrength * 1000) * sunLightIntensity) \div 2000
        \* scatteringColor above 0.1, else slate, with the shares of zenith,
        \* upper and ozone
        tint == IF elevation > 100
                THEN [c |-> Rgb(135, 206, 250), zenith |-> 4, upper |-> 3, ozone |-> 2]
                ELSE [c |-> Rgb(50, 60, 80), zenith |-> 2, upper |-> 2, ozone |-> 0]
        totalHaze == (humidity * 6) \div 10 + Max(0, density - 500) \div 2
        Key(f) == LerpColor(band.lo[f], band.hi[f], band.t)
        Scatter(c, share) == LerpColor(c, tint.c, (scatterStrength * share) \div 10)
        Vacuum(c, share) == LerpColor(c, Rgb(5, 10, 25), (vacuumFactor * share) \div 10)
        Haze(c, share) == LerpColor(c, Rgb(215, 225, 235), (totalHaze * share) \div 10)
        Ozone(c, glow) ==
            LerpColor(c, glow, IF totalHaze > 200 /\ elevation > -100
                               THEN (totalHaze * 3) \div 10 ELSE 0)
    IN [zenith |-> Vacuum(Scatter(Key("zenith"), tint.zenith), 10),
        upper |-> Vacuum(Scatter(Key("upper"), tint.upper), 9),
        ozone |-> Ozone(Vacuum(Scatter(Key("ozone"), tint.ozone), 7),
                        Haze(Vacuum(Key("glow"), 8), 2)),
        glow |-> Haze(Vacuum(Key("glow"), 8), 2),
        horizon |-> Haze(Vacuum(Key("horizon"), 6), 3),
        sunColor |-> IF band.dark THEN Rgb(0, 0, 0) ELSE Key("sun")]

\* calculateSkyPhysics(elevation, density, humidity): the five gradient
\* colours and the sun colour
CalculateSkyPhysics(elevation, density, humidity) ==
    SkyPasses(SkyBand(elevation), elevation, density, humidity)

\* the lookup table of the atmosphere effect: one row per pixel row
SkyLut(stopsRgb, ground, in) ==
    LET H == in.height
        \* Math.floor(getStopY(pct * s))
        StopY(pct) == Max(0, ((100 * in.horizon - pct * in.scale) * H) \div 100000)
        y4 == (H * in.horizon) \div 1000
        Seg(c1, c2, y, ya, yb) ==
            LerpColor(c1, c2, Max(0, Min(1000, ((y - ya) * 1000) \div Max(1, yb - ya))))
        Row(y, y1, y2, y3) ==
            LET c == IF y >= y4 THEN ground
                     ELSE IF y < y1 THEN Seg(stopsRgb[1].c, stopsRgb[2].c, y, 0, y1)
                     ELSE IF y < y2 THEN Seg(stopsRgb[2].c, stopsRgb[2].c, y, y1, y2)
                     ELSE IF y < y3 THEN Seg(stopsRgb[3].c, stopsRgb[4].c, y, y2, y3)
                     ELSE Seg(stopsRgb[4].c, stopsRgb[5].c, y, y3, y4)
            IN <<c.r, c.g, c.b, 255>>
    IN [k \in 1..H |-> Row(k - 1, StopY(60), StopY(30), StopY(12))]

\* skyState and skyLut as the atmosphere effect computes them from physics
SkyOf(physics, in) ==
    LET stopsRgb ==
            <<[offset |-> 0, c |-> physics.zenith], [offset |-> 45, c |-> physics.upper],
              [offset |-> 75, c |-> physics.ozone], [offset |-> 92, c |-> physics.glow],
              [offset |-> 100, c |-> physics.horizon]>>
        ground == LerpColor(LerpColor(Rgb(10, 15, 35), physics.horizon, 350), Rgb(2, 2, 5),
                            IF in.elevation < -100 THEN 900 ELSE 0)
    IN [skyState |-> <<[stops |-> stopsRgb, ground |-> ground, sun |-> physics.sunColor]>>,
        skyLut |-> SkyLut(stopsRgb, ground, in)]

\* the sky the atmosphere effect computes from its inputs
ComputeSky(in) ==
    SkyOf(CalculateSkyPhysics(in.elevation, in.density, in.humidity), in)

\* a sky that is computed once and then kept
SkyKeptOnceSet(prev, computed) == IF prev.skyState = <<>> THEN computed ELSE prev

\* refs.current.skyState and refs.current.skyLut after a run of the effect
\* that found prev and computed a sky
SkyAfterRun(prev, computed) == computed

MaxSkyRuns == 4
SkyInputs ==
    {[sun |-> TRUE, elevation |-> q[1], density |-> q[2], humidity |-> q[3],
      horizon |-> 700, scale |-> q[4], height |-> 10] :
       q \in {<<500, 600, 100, 1000>>, <<150, 100, 800, 500>>,
              <<50, 600, 800, 1000>>, <<-30, 100, 100, 1000>>,
              <<-100, 600, 100, 500>>, <<-200, 600, 800, 1000>>}}
    \cup {[sun |-> FALSE, elevation |-> 0, density |-> 600, humidity |-> 100,
           horizon |-> 700, scale |-> 1000, height |-> 10]}

InitSky ==
    /\ MountedEngine(Doc(300, 150), SteadyDry, 0, DefaultSettings)
    /\ lastOp = [op |-> "mount", runs |-> 0, hash |-> <<>>,
                 sky |-> [skyState |-> <<>>, skyLut |-> <<>>], seen |-> {}]

\* one run of the atmosphere effect; hash is what prevAtmosphereHashRef
\* holds of the state, seen pairs each input with the sky found after a run
AtmosphereEffect(in) ==
    /\ lastOp.runs < MaxSkyRuns
    /\ LET off == [skyState |-> <<>>, skyLut |-> <<>>]
           sky == IF in.sun THEN SkyAfterRun(lastOp.sky, ComputeSky(in))
                  ELSE IF lastOp.hash # <<"OFF">> THEN off ELSE lastOp.sky
       IN lastOp' = [op |-> "atmosphere", runs |-> lastOp.runs + 1,
                     hash |-> IF in.sun THEN <<"ON", in>> ELSE <<"OFF">>,
                     sky |-> sky,
                     seen |-> lastOp.seen \cup {<<in, sky>>}]
    /\ UNCHANGED <<layers, activeLayerId, canvases, registered, mask, temp, doc,
                   isDrawing, hasMoved, paintLoad, bristles, history,
                   historyIndex, settings, lastPoint, snapshot, now, opsLeft>>

NextSky == \E in \in SkyInputs : AtmosphereEffect(in)

SpecSky == InitSky /\ [][NextSky]_vars

\* C15: two runs of calculateSkyPhysics and the lookup-table generation
\* with the same elevation, density, humidity, horizon, scale and canvas
\* height leave the same gradient stops and the same lookup table, whatever
\* runs came before.
C15_SkyDeterministic ==
    \A a \in lastOp.seen, b \in lastOp.seen :
        (a[1].sun /\ a[1] = b[1]) => a[2] = b[2]

\* a sky computed again after runs with other inputs and with the sky off
C15_Witness ==
    /\ lastOp.op = "atmosphere"
    /\ lastOp.runs = 4
    /\ lastOp.hash[1] = "ON"
    /\ Cardinality(lastOp.seen) = 3
    /\ \E a \in lastOp.seen : ~a[1].sun /\ a[2].skyState = <<>>
    /\ \E a \in lastOp.seen : a[1] = lastOp.hash[2] /\ a[2] = lastOp.sky
    /\ Len(lastOp.sky.skyLut) = 10
    /\ lastOp.sky.skyLut[1] # lastOp.sky.skyLut[10]
    /\ \E a \in lastOp.seen : a[1].sun /\ a[2] # lastOp.sky

(* -------------------- strokes and the history: Spec ------------------- *)
\* C21: startStroke and drawBatch leave the history stack and the history
\* pointer as they are, and the endStroke that closes a stroke adds exactly
\* one entry after the pointer: a stroke of any number of drawBatch calls
\* is one undo step.
C21_StrokeIsOneEntry ==
    [][/\ lastOp'.op \in {"startStroke", "drawBatch"}
            => UNCHANGED <<history, historyIndex>>
       /\ lastOp'.op = "endStroke"
            => /\ Len(history') = historyIndex + 2
               /\ historyIndex' = historyIndex + 1
               /\ SubSeq(history', 1, historyIndex + 1) = SubSeq(history, 1, historyIndex + 1)]_vars

(* ------------------------- idle batches: SpecStroke ------------------- *)
\* C22: a drawBatch (drawStroke is a drawBatch of one point) while no stroke
\* is active leaves the layer rasters, paintLoad, lastPoint, the heading
\* (hasMoved is set where the heading angle is) and every bristle as they
\* were.
C22_IdleBatchChangesNothing ==
    [][(lastOp'.op = "drawBatch" /\ ~isDrawing)
         => UNCHANGED <<canvases, paintLoad, lastPoint, hasMoved, bristles>>]_vars

\* an idle drawBatch in wet mode, after a stroke that painted and drained
\* the brush
C22_Witness ==
    /\ lastOp.op = "drawBatch"
    /\ ~isDrawing
    /\ settings.wetMode
    /\ lastOp.pl = paintLoad
    /\ paintLoad < PL_ONE
    /\ Len(history) = 2
    /\ \E p \in Pix : canvases[activeLayerId].px[p].a > 0

\* C23: adding a layer, removing a layer or toggling a layer's visibility
\* (each re-runs init with the document dimensions unchanged) never removes
\* an existing history entry: the stack before the step is a prefix of the
\* stack after it.
C23_LayerOpsKeepEntries ==
    [][lastOp'.op \in {"addLayer", "removeLayer", "toggleLayerVisibility"}
         => /\ Len(history') >= Len(history)
            /\ SubSeq(history', 1, Len(history)) = history]_vars

(* ------------------ the wet lookup: SpecWetStamp ----------------------- *)
\* One pass of drawSegment's bristle loop at a time, on a layer that can be
\* painted and hidden, with the brush dry or wet and of either colour.
MaxStampOps == 5

\* the body of the bristle loop for bristle b landing on tracked pixel q
\* (0: outside the wet buffer), with the wet buffer drawBatch builds
StampBristleCall(b, q) ==
    /\ isDrawing
    /\ opsLeft > 0
    /\ HasActive(activeLayerId, registered, canvases)
    /\ LET wet == IF settings.wetMode
                  THEN GetWetBuffer(layers, canvases, registered) ELSE <<>>
           S == StampBristle([pl |-> paintLoad, br |-> bristles, scratch |-> temp],
                             b, q, settings, wet, 0)
       IN /\ lastOp' = [op |-> "stampBristle", i |-> historyIndex, n |-> Len(history),
                        pl |-> paintLoad, b |-> b, q |-> q, was |-> bristles[b],
                        wet |-> IF wet # <<>> /\ q # 0 THEN wet[q] ELSE Transparent,
                        scratch |-> temp]
          /\ paintLoad' = S.pl
          /\ bristles' = S.br
          /\ temp' = S.scratch
    /\ opsLeft' = opsLeft - 1
    /\ UNCHANGED <<LayerVars, canvases, mask, isDrawing, hasMoved, lastPoint, history,
                   historyIndex, settings, snapshot>>

SpecWetStamp ==
    /\ Mounted(Doc(300, 150), SteadyDry, MaxStampOps, WideBrush)
    /\ [][\/ StartStroke(0)
          \/ \E pts \in {<<400>>, <<0>>} : DrawBatch(pts, [b \in 1..NBristles |-> 0])
          \/ \E b \in 1..NBristles, q \in 0..NPix : StampBristleCall(b, q)
          \/ \E f \in {"wetMode", "color"} :
                \E v \in SettingValues[f] : SetSetting(f, v, SteadyDry)
          \/ DrawLassoFill({1})
          \/ \E id \in Ids : ToggleLayerVisibility(id)]_vars

\* C24: in a wet-mode stamp a bristle landing on a wet-buffer pixel of alpha
\* above 20 takes the pixel colour exactly, gets hasPaint and raises paintLoad
\* to at least 0.5 when it had no paint, and moves its colour a tenth of the
\* way to the pixel colour and adds 0.05 to paintLoad (capped at 1) when it
\* had paint; on alpha 20 or less, or outside the buffer, colour, hasPaint
\* and paintLoad are left as they were.
C24_WetPickup ==
    (lastOp.op = "stampBristle" /\ settings.wetMode)
      => LET was == lastOp.was
             cur == bristles[lastOp.b]
             px == lastOp.wet
         IN IF lastOp.q # 0 /\ px.a > 20
            THEN IF ~was.hasPaint
                 THEN /\ cur.color = px.v * 100
                      /\ cur.hasPaint
                      /\ paintLoad = Max(lastOp.pl, PL_HALF)
                 ELSE /\ Abs(10 * (cur.color - was.color) - (px.v * 100 - was.color)) < 10
                      /\ cur.hasPaint
                      /\ paintLoad = Min(PL_ONE, lastOp.pl + PL_PICKUP)
            ELSE /\ cur.color = was.color
                 /\ cur.hasPaint = was.hasPaint
                 /\ paintLoad = lastOp.pl

\* a bristle without paint picked paint up with the load under a half
C24_Witness ==
    /\ lastOp.op = "stampBristle"
    /\ settings.wetMode
    /\ lastOp.q # 0
    /\ lastOp.wet.a > 20
    /\ ~lastOp.was.hasPaint
    /\ lastOp.pl < PL_HALF
    /\ paintLoad = PL_HALF

\* C25: in a wet-mode drawBatch a bristle gains paint only when the wet
\* buffer holds a pixel of alpha above 20, and bristles without paint deposit
\* nothing: when no bristle has paint after the batch the layer rasters are
\* as before, and a batch that starts with no bristle loaded (a stroke
\* started with auto-clean) over fully transparent visible layers leaves the
\* active layer unchanged.
C25_EmptyBristlesDepositNothing ==
    [][(lastOp'.op = "drawBatch" /\ settings.wetMode)
         => LET wet == GetWetBuffer(layers, canvases, registered)
                gains == {b \in DOMAIN bristles :
                            ~bristles[b].hasPaint /\ bristles'[b].hasPaint}
            IN /\ gains # {} => \E p \in Pix : wet[p].a > 20
               /\ (\A b \in DOMAIN bristles : ~bristles'[b].hasPaint)
                    => canvases' = canvases
               /\ ((\A b \in DOMAIN bristles : ~bristles[b].hasPaint)
                    /\ (\A p \in Pix : wet[p].a = 0))
                    => /\ canvases' = canvases
                       /\ \A b \in DOMAIN bristles : ~bristles'[b].hasPaint]_vars

\* a wet-mode batch of a stroke started with auto-clean ran over a fully
\* transparent layer: the load was depleted and the layer is still blank
C25_Witness ==
    /\ lastOp.op = "drawBatch"
    /\ isDrawing
    /\ settings.wetMode
    /\ settings.autoClean
    /\ paintLoad < lastOp.pl
    /\ \A b \in DOMAIN bristles : ~bristles[b].hasPaint
    /\ \A p \in Pix : canvases[activeLayerId].px[p].a = 0

\* C26: the wet buffer holds the visible layers only and building it changes
\* no layer raster: what a wet-mode stamp reads under a bristle, and what a
\* wet-mode fill leaves on the active layer, are what they would be with
\* every hidden layer blank, and a stamp leaves every layer raster as it was.
C26_WetBufferOfVisibleLayers ==
    [][LET hidden == {layers[k].id : k \in {j \in DOMAIN layers : ~layers[j].visible}}
           shown == [id \in DOMAIN canvases |->
                       IF id \in hidden THEN [canvases[id] EXCEPT !.px = BlankPx]
                       ELSE canvases[id]]
           wet == GetWetBuffer(layers, shown, registered)
       IN /\ (lastOp'.op = "stampBristle" /\ settings.wetMode)
               => /\ lastOp'.wet = IF lastOp'.q # 0 THEN wet[lastOp'.q] ELSE Transparent
                  /\ canvases' = canvases
          /\ (lastOp'.op = "drawLassoFill" /\ settings.wetMode
                /\ HasActive(activeLayerId, registered, canvases))
               => canvases' = [canvases EXCEPT ![activeLayerId].px =
                                 CompositePx(@, FillScratch({1}, settings.color,
                                                            Opacity255(settings), settings,
                                                            wet, mask),
                                             LayerOp(settings))]]_vars

\* a wet-mode bristle landed on a pixel that a hidden layer has painted and
\* read a transparent wet buffer there
C26_Witness ==
    /\ lastOp.op = "stampBristle"
    /\ settings.wetMode
    /\ lastOp.q # 0
    /\ lastOp.wet.a = 0
    /\ \E k \in DOMAIN layers :
          /\ ~layers[k].visible
          /\ canvases[layers[k].id].px[lastOp.q].a > 20

\* C27: after updateBristles (a change of brush type, size or wet mode), for
\* every brush type, every bristle carries the current brush colour and its
\* hasPaint is true exactly when wet mode is off.
C27_NewBristlesLoadedUnlessWet ==
    [][(/\ lastOp'.op = "setSetting"
        /\ \E f \in {"brushType", "size", "wetMode"} : settings'[f] # settings[f])
         => \A b \in DOMAIN bristles' :
               /\ bristles'[b].color = settings'.color * 100
               /\ bristles'[b].hasPaint = ~settings'.wetMode]_vars

\* C28: a colour change with brush type, size and wet mode unchanged keeps
\* the bristle set: with wet mode off every bristle's colour becomes the new
\* colour and its geometry and hasPaint stay; with wet mode on colour and
\* hasPaint stay too.
C28_ColorChangeKeepsBristles ==
    [][(lastOp'.op = "setSetting" /\ settings'.color # settings.color)
         => /\ DOMAIN bristles' = DOMAIN bristles
            /\ \A b \in DOMAIN bristles :
                  /\ bristles'[b].drySensitivity = bristles[b].drySensitivity
                  /\ bristles'[b].hasPaint = bristles[b].hasPaint
                  /\ bristles'[b].color = IF settings.wetMode THEN bristles[b].color
                                          ELSE settings'.color * 100]_vars

\* the colour was changed in wet mode while a bristle carried paint it had
\* picked up: the bristle kept it
C28_Witness ==
    /\ lastOp.op = "setSetting"
    /\ settings.wetMode
    /\ \E b \in DOMAIN bristles :
          /\ bristles[b].hasPaint
          /\ bristles[b].color # settings.color * 100

\* C29: when a drawBatch that composited onto the active layer returns, the
\* scratch buffer holds no pixel of the batch.
C29_ScratchClearedAfterBatch ==
    [][(lastOp'.op = "drawBatch" /\ canvases' # canvases) => temp' = BlankPx]_vars

(* --------------------- sky bands: SpecSkyBands ------------------------- *)
\* calculateSkyPhysics at and next to each elevation breakpoint, in thin and
\* dense, dry and humid air.
MaxSkyCalls == 3

CalculateSkyPhysicsCall(elevation, density, humidity) ==
    /\ opsLeft > 0
    /\ opsLeft' = opsLeft - 1
    /\ lastOp' = [op |-> "calculateSkyPhysics",
                  elevation |-> elevation, density |-> density, humidity |-> humidity,
                  physics |-> CalculateSkyPhysics(elevation, density, humidity)]
    /\ UNCHANGED <<layers, activeLayerId, canvases, registered, mask, temp, doc,
                   isDrawing, hasMoved, paintLoad, bristles, history,
                   historyIndex, settings, lastPoint, snapshot, now>>

SpecSkyBands ==
    /\ Mounted(Doc(300, 150), SteadyDry, MaxSkyCalls, DefaultSettings)
    /\ [][\E elevation \in {600, 201, 200, 1, 0, -59, -60, -119, -120, -250},
             density \in {100, 600}, humidity \in {100, 800} :
             CalculateSkyPhysicsCall(elevation, density, humidity)]_vars

\* C30: at each breakpoint elevation (0.2, 0.0, -0.06, -0.12) the colours
\* calculateSkyPhysics gives (zenith, upper, ozone, glow, horizon and sun),
\* which come from the band below at its upper end, are the ones the band
\* above gives at its lower end.
C30_BandsMeetAtBreakpoints ==
    (lastOp.op = "calculateSkyPhysics" /\ lastOp.elevation \in {200, 0, -60, -120})
      => LET above == [SkyBand(lastOp.elevation + 1) EXCEPT !.t = 0]
         IN lastOp.physics =
              SkyPasses(above, lastOp.elevation, lastOp.density, lastOp.humidity)

=============================================================================
